---- MODULE Spec2Model ----
(***************************************************************************)
(* A model of the price-check pipeline of The Budget Travel Guardian:      *)
(* src/src/pages/api/check-prices.ts (extractPrice, the three category     *)
(* lookups, checkAllPrices and the POST handler) and the SmartBucket       *)
(* writes of src/unnamed/part_007 (saveToSmartBucket).                     *)
(*                                                                         *)
(* A text is a sequence of one-character strings.  Positions are 1-based;  *)
(* the end of a match is the position after its last character.            *)
(***************************************************************************)
EXTENDS Integers, Sequences, FiniteSets, TLC

(***************************************************************************)
(* Characters                                                              *)
(***************************************************************************)
UpperChars == <<"A","B","C","D","E","F","G","H","I","J","K","L","M",
                "N","O","P","Q","R","S","T","U","V","W","X","Y","Z">>
LowerChars == <<"a","b","c","d","e","f","g","h","i","j","k","l","m",
                "n","o","p","q","r","s","t","u","v","w","x","y","z">>

\* The case folding of the regular expressions' i flag.
LowerOf ==
  [c \in {UpperChars[k] : k \in 1..Len(UpperChars)} |->
     LowerChars[CHOOSE k \in 1..Len(UpperChars) : UpperChars[k] = c]]

Fold(c) == IF c \in DOMAIN LowerOf THEN LowerOf[c] ELSE c

DigitChars == <<"0","1","2","3","4","5","6","7","8","9">>

\* \d
IsDigit(c) == \E k \in 1..Len(DigitChars) : DigitChars[k] = c

DigitVal(c) == (CHOOSE k \in 1..Len(DigitChars) : DigitChars[k] = c) - 1

\* \s (the texts of the model hold no other white space than these)
IsSpace(c) == c \in {" ", "\n", "\t"}

(***************************************************************************)
(* The amount sub-pattern \d{1,3}(?:,\d{3})*(?:\.\d{2})? of extractPrice   *)
(***************************************************************************)
\* n digits at position i
DigitsAt(text, i, n) ==
  /\ i + n - 1 <= Len(text)
  /\ \A k \in 0..(n - 1) : IsDigit(text[i + k])

\* one (?:,\d{3}) at position p
GroupAt(text, p) ==
  /\ p + 3 <= Len(text)
  /\ text[p] = ","
  /\ DigitsAt(text, p + 1, 3)

\* the number of (?:,\d{3}) the greedy star takes at position p
RECURSIVE GreedyGroups(_, _)
GreedyGroups(text, p) ==
  IF GroupAt(text, p) THEN 1 + GreedyGroups(text, p + 4) ELSE 0

\* (?:\.\d{2}) at position q
CentsAt(text, q) ==
  /\ q + 2 <= Len(text)
  /\ text[q] = "."
  /\ DigitsAt(text, q + 1, 2)

\* The ends of the amount after its leading digits, with at most k groups,
\* in the order the backtracking matcher tries them: cents before no cents,
\* more groups before fewer.
RECURSIVE GroupCands(_, _, _)
GroupCands(text, p, k) ==
  LET q == p + 4 * k
  IN  (IF CentsAt(text, q) THEN <<q + 3, q>> ELSE <<q>>)
        \o (IF k = 0 THEN <<>> ELSE GroupCands(text, p, k - 1))

\* The candidates that start with exactly d leading digits.
CandsForD(text, i, d) ==
  IF DigitsAt(text, i, d)
  THEN GroupCands(text, i + d, GreedyGroups(text, i + d))
  ELSE <<>>

\* Every end of the amount sub-pattern at position i, in the matcher's
\* order of preference (\d{1,3} is greedy: three digits, then two, then one).
NumeralCands(text, i) ==
  CandsForD(text, i, 3) \o CandsForD(text, i, 2) \o CandsForD(text, i, 1)

(***************************************************************************)
(* The four patterns of extractPrice.  A match is [from, to, next]: the    *)
(* captured group is text[from..to-1] and the match ends before next.      *)
(***************************************************************************)
NoMatch == [from |-> 0, to |-> 0, next |-> 0]

\* lit (a lower-case text) at position i, letter case ignored
LitAt(text, i, lit) ==
  /\ i + Len(lit) - 1 <= Len(text)
  /\ \A k \in 1..Len(lit) : Fold(text[i + k - 1]) = lit[k]

\* the number of characters of white space (or ":" when colon) from p on
RECURSIVE RunOf(_, _, _)
RunOf(text, p, colon) ==
  IF p <= Len(text) /\ (IsSpace(text[p]) \/ (colon /\ text[p] = ":"))
  THEN 1 + RunOf(text, p + 1, colon)
  ELSE 0

\* /\$(\d{1,3}(?:,\d{3})*(?:\.\d{2})?)/g
DollarAt(text, i) ==
  IF text[i] = "$" /\ NumeralCands(text, i + 1) # <<>>
  THEN LET e == NumeralCands(text, i + 1)[1]
       IN  [from |-> i + 1, to |-> e, next |-> e]
  ELSE NoMatch

\* The end of \s*(?:USD|dollars?) at position e, 0 when it does not match.
UnitEnd(text, e) ==
  LET w == e + RunOf(text, e, FALSE)
  IN  IF LitAt(text, w, <<"u","s","d">>) THEN w + 3
      ELSE IF LitAt(text, w, <<"d","o","l","l","a","r">>)
           THEN IF w + 6 <= Len(text) /\ Fold(text[w + 6]) = "s"
                THEN w + 7 ELSE w + 6
           ELSE 0

\* /(\d{1,3}(?:,\d{3})*(?:\.\d{2})?)\s*(?:USD|dollars?)/gi : the first
\* candidate of the amount that the unit follows.
UnitAt(text, i) ==
  LET cands == NumeralCands(text, i)
      good  == {k \in 1..Len(cands) : UnitEnd(text, cands[k]) # 0}
  IN  IF good = {} THEN NoMatch
      ELSE LET k == CHOOSE m \in good : \A n \in good : m <= n
           IN  [from |-> i, to |-> cands[k], next |-> UnitEnd(text, cands[k])]

\* [:\s]+\$?(amount) at position p, the rest of the last two patterns
TailAt(text, p) ==
  LET n  == RunOf(text, p, TRUE)
      p2 == p + n
      p3 == IF p2 <= Len(text) /\ text[p2] = "$" THEN p2 + 1 ELSE p2
  IN  IF n >= 1 /\ NumeralCands(text, p3) # <<>>
      THEN LET e == NumeralCands(text, p3)[1]
           IN  [from |-> p3, to |-> e, next |-> e]
      ELSE NoMatch

\* /price[:\s]+\$?(\d{1,3}(?:,\d{3})*(?:\.\d{2})?)/gi
PriceWordAt(text, i) ==
  IF LitAt(text, i, <<"p","r","i","c","e">>) THEN TailAt(text, i + 5)
  ELSE NoMatch

\* /(?:from|starting at|as low as)[:\s]+\$?(...)/gi
FromAt(text, i) ==
  IF LitAt(text, i, <<"f","r","o","m">>) THEN TailAt(text, i + 4)
  ELSE IF LitAt(text, i, <<"s","t","a","r","t","i","n","g"," ","a","t">>)
       THEN TailAt(text, i + 11)
  ELSE IF LitAt(text, i, <<"a","s"," ","l","o","w"," ","a","s">>)
       THEN TailAt(text, i + 9)
  ELSE NoMatch

\* the number of patterns in extractPrice's list
NumPatterns == 4

\* patterns[pat] tried at position i
MatchAt(pat, text, i) ==
  CASE pat = 1 -> DollarAt(text, i)
    [] pat = 2 -> UnitAt(text, i)
    [] pat = 3 -> PriceWordAt(text, i)
    [] OTHER   -> FromAt(text, i)

\* text.matchAll(pattern): the matches from position pos on, left to right,
\* each search resuming where the previous match ended.
RECURSIVE MatchAll(_, _, _)
MatchAll(pat, text, pos) ==
  IF pos > Len(text) THEN <<>>
  ELSE LET m == MatchAt(pat, text, pos)
       IN  IF m = NoMatch THEN MatchAll(pat, text, pos + 1)
           ELSE <<m>> \o MatchAll(pat, text, m.next)

(***************************************************************************)
(* extractPrice                                                            *)
(***************************************************************************)
\* parseFloat(match[1].replace(/,/g, '')) in hundredths: the digits before
\* the point (commas dropped) and the two digits after it.
RECURSIVE ParseCents(_, _, _, _)
ParseCents(text, from, to, acc) ==
  IF from >= to THEN 100 * acc
  ELSE IF text[from] = "," THEN ParseCents(text, from + 1, to, acc)
  ELSE IF text[from] = "."
       THEN 100 * acc + 10 * DigitVal(text[from + 1]) + DigitVal(text[from + 2])
  ELSE ParseCents(text, from + 1, to, 10 * acc + DigitVal(text[from]))

\* Math.round of c hundredths
RoundCents(c) == (c + 50) \div 100

\* price > 0 && price >= fallbackMin * 0.3 && price <= fallbackMax * 3
InBandCents(c, fallbackMin, fallbackMax) ==
  /\ c > 0
  /\ c >= 30 * fallbackMin
  /\ c <= 300 * fallbackMax

\* The prices the loop over one pattern's matches pushes, in order.
RECURSIVE BandPrices(_, _, _, _)
BandPrices(text, ms, fallbackMin, fallbackMax) ==
  IF ms = <<>> THEN <<>>
  ELSE LET c == ParseCents(text, ms[1].from, ms[1].to, 0)
       IN  (IF InBandCents(c, fallbackMin, fallbackMax)
            THEN <<RoundCents(c)>> ELSE <<>>)
             \o BandPrices(text, Tail(ms), fallbackMin, fallbackMax)

\* prices after the loop over the patterns
RECURSIVE CollectPrices(_, _, _, _)
CollectPrices(text, pat, fallbackMin, fallbackMax) ==
  IF pat > NumPatterns THEN <<>>
  ELSE BandPrices(text, MatchAll(pat, text, 1), fallbackMin, fallbackMax)
         \o CollectPrices(text, pat + 1, fallbackMin, fallbackMax)

\* Math.min(...prices)
MinOf(prices) ==
  CHOOSE p \in {prices[k] : k \in 1..Len(prices)} :
    \A k \in 1..Len(prices) : p <= prices[k]

\* Math.random() returns a double of [0, 1) with RandBits bits after the
\* binary point: rnd / RandDen, with rnd in 0..RandDen-1.  The products and
\* sums the code computes on such draws are exact in double precision, so
\* the integer arithmetic below gives the value Math.round returns.
RandBits == 10
RandDen == 2 ^ RandBits

\* RoundRandom with Math.random() * fallbackMax in place of
\* Math.random() * (fallbackMax - fallbackMin)
RoundRandomNoMin(lo, width, rnd) ==
  (2 * (lo * RandDen + rnd * (width + lo)) + RandDen) \div (2 * RandDen)

\* Math.round(lo + Math.random() * width)
RoundRandom(lo, width, rnd) ==
  (2 * (lo * RandDen + rnd * width) + RandDen) \div (2 * RandDen)

\* extractPrice(text, fallbackMin, fallbackMax), Math.random() drawing rnd
\* when it is called: the price, and the calls of Math.random() made (one,
\* at line 180, when no amount is collected).
extractPriceCall(text, fallbackMin, fallbackMax, rnd) ==
  LET prices == CollectPrices(text, 1, fallbackMin, fallbackMax)
  IN  IF Len(prices) > 0 THEN [price |-> MinOf(prices), drawn |-> 0]
      ELSE [price |-> RoundRandom(fallbackMin, fallbackMax - fallbackMin, rnd), drawn |-> 1]

extractPrice(text, fallbackMin, fallbackMax, rnd) ==
  extractPriceCall(text, fallbackMin, fallbackMax, rnd).price

(***************************************************************************)
(* The gateway (searchPerplexity) and the three category lookups           *)
(***************************************************************************)
Categories == {"flight", "hotel", "car"}

\* The texts a gateway response of the model carries.
TextTwoPrices == <<"$","3","1","2"," ","o","r"," ","$","2","9","0">>   \* "$312 or $290"
TextNoPrice   == <<"n","o"," ","f","a","r","e","s">>   \* "no fares"
TextFrom45    == <<"f","r","o","m"," ","$","4","5">>   \* "from $45"
TextUnsplit   == <<"$","1","5","0","0">>   \* "$1500"
TextUpperCase == <<"D","E","L","T","A"," ","o","r"," ","h","i","l","t","o","n">>   \* "DELTA or hilton"
TextTwoLabels ==   \* "Delta or United $450"
  <<"D","e","l","t","a"," ","o","r"," ","U","n","i","t","e","d"," ","$","4","5","0">>

\* A parsed response body: answer is '' when the body has none; results is
\* "missing", "array" (items holds the list) or "other" (a value that is
\* not a list); an item is one search result.
Payload(answer, results, items) ==
  [answer |-> answer, results |-> results, items |-> items]
Item(snippet, title, url) == [snippet |-> snippet, title |-> title, url |-> url]

PayloadEmpty     == Payload(<<>>, "missing", <<>>)
PayloadNoResults == Payload(<<>>, "array", <<>>)
PayloadOther     == Payload(<<>>, "other", <<>>)

PayloadAnswer    == Payload(TextTwoPrices, "missing", <<>>)
PayloadNoPrice   == Payload(TextNoPrice, "missing", <<>>)
PayloadSnippets  ==
  Payload(<<>>, "array",
          << Item(TextFrom45, <<>>, "u1"), Item(<<>>, TextUnsplit, ""),
             Item(TextUpperCase, <<>>, "u2"), Item(<<>>, <<>>, "u3"),
             Item(<<>>, <<>>, "u4") >>)
PayloadBoth      == Payload(TextTwoLabels, "array", <<Item(TextTwoPrices, <<>>, "u1")>>)

\* The bodies the gateway of the model sends for a category.
Payloads(c) ==
  CASE c = "flight" -> { PayloadEmpty, PayloadNoResults, PayloadOther, PayloadAnswer,
                         PayloadNoPrice, PayloadSnippets, PayloadBoth }
    [] c = "hotel"  -> { PayloadEmpty, PayloadNoResults, PayloadOther, PayloadSnippets }
    [] OTHER        -> { PayloadEmpty, PayloadNoResults, PayloadOther, PayloadAnswer }

\* The ways a gateway request fails: fetch throws, the status is not 2xx,
\* response.json() throws.
GatewayFailures == {"network_error", "non_2xx", "bad_json"}

\* A value of searchPerplexity: null, or the parsed body.
Null == [isNull |-> TRUE, data |-> PayloadEmpty]
Data(payload) == [isNull |-> FALSE, data |-> payload]

\* searchPerplexity with one more fetch after a request that failed.
searchPerplexityRetry(key, outcome, payload) ==
  IF ~key THEN [value |-> Null, fetches |-> 0, threw |-> FALSE]
  ELSE IF outcome = "ok" THEN [value |-> Data(payload), fetches |-> 1, threw |-> FALSE]
  ELSE [value |-> Null, fetches |-> 2, threw |-> FALSE]

\* searchPerplexity(query, searchType): key says whether PERPLEXITY_API_KEY
\* is set, outcome what the gateway does ("ok" or a failure), payload the
\* body it sends.  The result is the value returned, the number of fetch
\* calls made and whether the call threw: every failure is caught inside
\* and becomes null.
searchPerplexity(key, outcome, payload) ==
  IF ~key THEN [value |-> Null, fetches |-> 0, threw |-> FALSE]
  ELSE IF outcome = "ok" THEN [value |-> Data(payload), fetches |-> 1, threw |-> FALSE]
  ELSE [value |-> Null, fetches |-> 1, threw |-> FALSE]

\* results.map(r => r.snippet || r.title || '').join(' ')
RECURSIVE JoinSnippets(_)
JoinSnippets(items) ==
  IF items = <<>> THEN <<>>
  ELSE LET t == IF Head(items).snippet # <<>> THEN Head(items).snippet
                ELSE Head(items).title
       IN  IF Len(items) = 1 THEN t ELSE t \o <<" ">> \o JoinSnippets(Tail(items))

\* searchResult && (searchResult.answer || searchResult.results)
UsesSearch(sr) ==
  /\ ~sr.isNull
  /\ (sr.data.answer # <<>> \/ sr.data.results # "missing")

\* searchResult.answer || (searchResult.results && searchResult.results.map(...).join(' ')) || ''
\* (defined when results is a list or answer is not empty)
SearchText(sr) ==
  IF sr.data.answer # <<>> THEN sr.data.answer
  ELSE JoinSnippets(sr.data.items)

\* The evaluation of the text throws a TypeError: results is neither
\* missing nor a list, so results.map is not a function.
TextThrows(sr) == sr.data.answer = <<>> /\ sr.data.results = "other"

\* text.substring(0, 300)
Substring300(text) == SubSeq(text, 1, IF Len(text) < 300 THEN Len(text) ELSE 300)

(***************************************************************************)
(* Labels and booking URLs of a quote                                      *)
(***************************************************************************)
\* the list of checkFlightPrices, line 253
airlines ==
  << <<"U","n","i","t","e","d">>,   \* United
     <<"D","e","l","t","a">>,   \* Delta
     <<"A","m","e","r","i","c","a","n">>,   \* American
     <<"S","o","u","t","h","w","e","s","t">>,   \* Southwest
     <<"J","e","t","B","l","u","e">>,   \* JetBlue
     <<"A","l","a","s","k","a">>,   \* Alaska
     <<"S","p","i","r","i","t">>,   \* Spirit
     <<"F","r","o","n","t","i","e","r">> >>   \* Frontier

\* the list of checkHotelPrices, line 350
hotelNames ==
  << <<"M","a","r","r","i","o","t","t">>,   \* Marriott
     <<"H","i","l","t","o","n">>,   \* Hilton
     <<"H","y","a","t","t">>,   \* Hyatt
     <<"H","o","l","i","d","a","y"," ","I","n","n">>,   \* Holiday Inn
     <<"B","e","s","t"," ","W","e","s","t","e","r","n">>,   \* Best Western
     <<"S","h","e","r","a","t","o","n">>,   \* Sheraton
     <<"D","o","u","b","l","e","T","r","e","e">>,   \* DoubleTree
     <<"C","o","u","r","t","y","a","r","d">>,   \* Courtyard
     <<"H","a","m","p","t","o","n"," ","I","n","n">>,   \* Hampton Inn
     <<"F","a","i","r","f","i","e","l","d"," ","I","n","n">> >>   \* Fairfield Inn

\* the list of checkCarPrices, line 445
carTypes ==
  << <<"E","c","o","n","o","m","y">>,   \* Economy
     <<"C","o","m","p","a","c","t">>,   \* Compact
     <<"M","i","d","-","s","i","z","e">>,   \* Mid-size
     <<"M","i","d","s","i","z","e">>,   \* Midsize
     <<"F","u","l","l","-","s","i","z","e">>,   \* Full-size
     <<"S","U","V">>,   \* SUV
     <<"S","t","a","n","d","a","r","d">>,   \* Standard
     <<"I","n","t","e","r","m","e","d","i","a","t","e">> >>   \* Intermediate

\* The lists of the simulation branches (lines 272, 369, 464).
fallbackAirlines == SubSeq(airlines, 1, 5)
fallbackHotelNames == SubSeq(hotelNames, 1, 6)
\* the list of the simulation of checkCarPrices, line 464
fallbackCarTypes ==
  << <<"E","c","o","n","o","m","y">>,   \* Economy
     <<"C","o","m","p","a","c","t">>,   \* Compact
     <<"M","i","d","-","s","i","z","e">>,   \* Mid-size
     <<"F","u","l","l","-","s","i","z","e">>,   \* Full-size
     <<"S","U","V">> >>   \* SUV

\* The list a lookup searches the text for, and the one its simulation
\* draws from.
SearchList(c) ==
  CASE c = "flight" -> airlines
    [] c = "hotel"  -> hotelNames
    [] OTHER        -> carTypes

FallbackList(c) ==
  CASE c = "flight" -> fallbackAirlines
    [] c = "hotel"  -> fallbackHotelNames
    [] OTHER        -> fallbackCarTypes

\* term at position i of the text, letter case ignored
TermAt(text, i, term) ==
  /\ i + Len(term) - 1 <= Len(text)
  /\ \A k \in 1..Len(term) : Fold(text[i + k - 1]) = Fold(term[k])

\* list[Math.floor(Math.random() * list.length)]
RandomEntry(list, rnd) == list[((rnd * Len(list)) \div RandDen) + 1]

\* text.match(new RegExp(list.join('|'), 'i')): the match is at the first
\* position of the text where an entry stands, and is the first entry of
\* the list that stands there; match[0] is that part of the text.  The
\* label is match[0], or a random entry when nothing matches.
ExtractLabel(text, list, rnd) ==
  LET folded == [i \in 1..Len(text) |-> Fold(text[i])]
      hits == { i \in 1..Len(text) : \E k \in 1..Len(list) : TermAt(folded, i, list[k]) }
  IN  IF hits = {} THEN RandomEntry(list, rnd)
      ELSE LET i == CHOOSE j \in hits : \A h \in hits : j <= h
               k == CHOOSE m \in 1..Len(list) :
                      /\ TermAt(folded, i, list[m])
                      /\ \A n \in 1..(m - 1) : ~TermAt(folded, i, list[n])
           IN  SubSeq(text, i, i + Len(list[k]) - 1)

\* A booking URL: one the gateway sent (site is the URL, the rest is
\* empty), or one made from a template (site) with its parameters.
Url(site, name, from, to) == [site |-> site, name |-> name, from |-> from, to |-> to]
GatewayUrl(u) == Url(u, <<>>, "", "")

\* Slice3 without the cut.
SliceNone(urls) == urls

\* urls.slice(0, 3)
Slice3(urls) == SubSeq(urls, 1, IF Len(urls) < 3 THEN Len(urls) ELSE 3)

\* The URLs of the results that have one, in the order of the results.
RECURSIVE ResultUrls(_)
ResultUrls(items) ==
  IF items = <<>> THEN <<>>
  ELSE (IF Head(items).url # "" THEN <<GatewayUrl(Head(items).url)>> ELSE <<>>)
         \o ResultUrls(Tail(items))

\* extractBookingUrls(searchResult): results is used when it is an array
extractBookingUrls(sr) ==
  Slice3(IF sr.data.results = "array" THEN ResultUrls(sr.data.items) ELSE <<>>)

\* toLowerCase() of a label
ToLowerCase(chars) == [k \in 1..Len(chars) |-> Fold(chars[k])]

\* replace(' ', ''): the first space is removed
RemoveFirstSpace(chars) ==
  IF \E k \in 1..Len(chars) : chars[k] = " "
  THEN LET k == CHOOSE j \in 1..Len(chars) :
                  chars[j] = " " /\ \A h \in 1..(j - 1) : chars[h] # " "
       IN  SubSeq(chars, 1, k - 1) \o SubSeq(chars, k + 1, Len(chars))
  ELSE chars

\* toLowerCase() of the origin and the destination of the model
LowerPlace(place) ==
  CASE place = "NYC" -> "nyc"
    [] place = "LAX" -> "lax"
    [] OTHER -> place

\* The three URLs a simulation makes up (lines 276-280, 373-377, 468-472).
FallbackUrls(c, label, origin, destination) ==
  CASE c = "flight" ->
         << Url("https://www.{name}.com/flights/{from}-{to}",
                ToLowerCase(label), LowerPlace(origin), LowerPlace(destination)),
            Url("https://www.expedia.com/flights/{from}-{to}",
                <<>>, LowerPlace(origin), LowerPlace(destination)),
            Url("https://www.kayak.com/flights/{from}-{to}",
                <<>>, LowerPlace(origin), LowerPlace(destination)) >>
    [] c = "hotel" ->
         << Url("https://www.{name}.com/hotels/{to}",
                RemoveFirstSpace(ToLowerCase(label)), "", LowerPlace(destination)),
            Url("https://www.booking.com/searchresults.html?ss={to}", <<>>, "", destination),
            Url("https://www.hotels.com/search.do?destination={to}", <<>>, "", destination) >>
    [] OTHER ->
         << Url("https://www.enterprise.com/en/car-rental/locations/us/{to}.html",
                <<>>, "", LowerPlace(destination)),
            Url("https://www.hertz.com/rentacar/location/us/{to}",
                <<>>, "", LowerPlace(destination)),
            Url("https://www.avis.com/en/locations/us/{to}",
                <<>>, "", LowerPlace(destination)) >>

NoQuote == [price |-> 0, label |-> <<>>, source |-> "none", withinBudget |-> FALSE,
            searchResult |-> <<>>, bookingUrls |-> <<>>]

\* The price band, and the base and jitter of the simulation, of a category:
\* extractPrice(text, lo, hi); basePrice = lo + random * width;
\* variance = -jitter + random * 2 * jitter.
FlightBand == [lo |-> 400, hi |-> 900, width |-> 500, jitter |-> 100]
HotelBand  == [lo |-> 80, hi |-> 280, width |-> 200, jitter |-> 40]
CarBand    == [lo |-> 30, hi |-> 100, width |-> 70, jitter |-> 20]

\* SimulatedPrice with a variance of random * 2 * jitter, never negative.
SimulatedPriceUp(band, rnd) ==
  (2 * (band.lo * RandDen + rnd[1] * band.width + rnd[2] * 2 * band.jitter) + RandDen)
    \div (2 * RandDen)

\* Math.round(basePrice + variance), the two draws being rnd[1] and rnd[2]
SimulatedPrice(band, rnd) ==
  (2 * ((band.lo - band.jitter) * RandDen
          + rnd[1] * band.width + rnd[2] * 2 * band.jitter) + RandDen)
    \div (2 * RandDen)

\* The band of a category.
BandOf(c) ==
  CASE c = "flight" -> FlightBand
    [] c = "hotel"  -> HotelBand
    [] OTHER        -> CarBand

\* The calls of Math.random() the choice of the label makes: one, when no
\* entry of the list stands in the text (lines 256, 353, 448).
ExtractLabelDraws(text, list) ==
  IF \E i \in 1..Len(text), k \in 1..Len(list) :
       TermAt([j \in 1..Len(text) |-> Fold(text[j])], i, list[k])
  THEN 0 ELSE 1

\* The quote a lookup makes of the text of a search result (lines 246-264),
\* e being what its call of extractPrice gave: the label takes the next
\* value of Math.random() after those extractPrice drew.
SearchQuote(c, sr, e, rnd) ==
  [threw |-> FALSE,
   quote |-> [price |-> e.price,
              label |-> ExtractLabel(SearchText(sr), SearchList(c), rnd[e.drawn + 1]),
              source |-> "perplexity",
              withinBudget |-> FALSE,
              searchResult |-> Substring300(SearchText(sr)),
              bookingUrls |-> extractBookingUrls(sr)],
   drawn |-> e.drawn + ExtractLabelDraws(SearchText(sr), SearchList(c))]

\* checkFlightPrices, checkHotelPrices and checkCarPrices (c says which) once
\* searchPerplexity has returned sr: the quote (its price field is price,
\* pricePerNight or pricePerDay), or a thrown TypeError.  rnd holds the next
\* three values of Math.random(), the generator all lookups call; they are
\* taken in the order of the calls (extractPrice, then the label; base
\* price, variance, label in the simulation) and drawn says how many were.
CheckPrices(c, sr, rnd, origin, destination) ==
  IF UsesSearch(sr)
  THEN IF TextThrows(sr) THEN [threw |-> TRUE, quote |-> NoQuote, drawn |-> 0]
       ELSE SearchQuote(c, sr, extractPriceCall(SearchText(sr), BandOf(c).lo, BandOf(c).hi, rnd[1]), rnd)
  ELSE LET label == RandomEntry(FallbackList(c), rnd[3])
       IN  [threw |-> FALSE,
            quote |-> [price |-> SimulatedPrice(BandOf(c), rnd),
                       label |-> label,
                       source |-> "simulation",
                       withinBudget |-> FALSE,
                       searchResult |-> <<>>,
                       bookingUrls |-> FallbackUrls(c, label, origin, destination)],
            drawn |-> 3]

(***************************************************************************)
(* checkAllPrices                                                          *)
(***************************************************************************)
\* 1000 * 60 * 60 * 24
MsPerDay == 86400000

\* Math.ceil((end - start) / MsPerDay); dates are in milliseconds
TripDays(startDate, endDate) == -((startDate - endDate) \div MsPerDay)

\* PriceCheck with the car rate counted for one day only.
PriceCheckCarOnce(td, flightData, hotelData, carData) ==
  LET days == TripDays(td.startDate, td.endDate)
      totalCost == flightData.price + hotelData.price * days + carData.price
  IN  [flight |-> [flightData EXCEPT !.withinBudget = flightData.price <= td.flightBudget],
       hotel |-> [hotelData EXCEPT !.withinBudget = hotelData.price <= td.hotelBudgetPerNight],
       car |-> [carData EXCEPT !.withinBudget = carData.price <= td.carBudgetPerDay],
       totalCost |-> totalCost,
       withinTotalBudget |-> totalCost <= td.totalBudget]

\* PriceCheck with < in place of <= in the flight's budget check.
PriceCheckStrict(td, flightData, hotelData, carData) ==
  LET days == TripDays(td.startDate, td.endDate)
      totalCost == flightData.price + hotelData.price * days + carData.price * days
  IN  [flight |-> [flightData EXCEPT !.withinBudget = flightData.price < td.flightBudget],
       hotel |-> [hotelData EXCEPT !.withinBudget = hotelData.price <= td.hotelBudgetPerNight],
       car |-> [carData EXCEPT !.withinBudget = carData.price <= td.carBudgetPerDay],
       totalCost |-> totalCost,
       withinTotalBudget |-> totalCost <= td.totalBudget]

\* The report checkAllPrices returns from the three quotes.
PriceCheck(td, flightData, hotelData, carData) ==
  LET days == TripDays(td.startDate, td.endDate)
      totalHotelCost == hotelData.price * days
      totalCarCost == carData.price * days
      totalCost == flightData.price + totalHotelCost + totalCarCost
  IN  [flight |-> [flightData EXCEPT !.withinBudget = flightData.price <= td.flightBudget],
       hotel |-> [hotelData EXCEPT !.withinBudget = hotelData.price <= td.hotelBudgetPerNight],
       car |-> [carData EXCEPT !.withinBudget = carData.price <= td.carBudgetPerDay],
       totalCost |-> totalCost,
       withinTotalBudget |-> totalCost <= td.totalBudget]

(***************************************************************************)
(* The POST handler of check-prices                                        *)
(***************************************************************************)
\* A date field holds the time of its date string in milliseconds, counted
\* from a reference midnight; NoDate is a field that is absent or ''.
NoDate == -1
HalfDay == MsPerDay \div 2

\* The end dates of the requests are 0, 3, ..., 3 * MaxEndSteps half days;
\* the start date is half a day.
MaxEndSteps == 2

StartDates == {HalfDay}
EndDates == {3 * k * HalfDay : k \in 0..MaxEndSteps}

Budgets ==
  { [totalBudget |-> 2000, flightBudget |-> 600, hotelBudgetPerNight |-> 200, carBudgetPerDay |-> 60],
    [totalBudget |-> 425, flightBudget |-> 290, hotelBudgetPerNight |-> 45, carBudgetPerDay |-> 44] }

TripDetails(origin, destination, startDate, endDate, b) ==
  [origin |-> origin, destination |-> destination,
   startDate |-> startDate, endDate |-> endDate,
   totalBudget |-> b.totalBudget, flightBudget |-> b.flightBudget,
   hotelBudgetPerNight |-> b.hotelBudgetPerNight,
   carBudgetPerDay |-> b.carBudgetPerDay]

Origins == {"NYC"}
Destinations == {"LAX"}

\* The request bodies that parse to an object.
Bodies ==
  { TripDetails(o, d, s, e, b) :
      o \in {""} \cup Origins, d \in {""} \cup Destinations,
      s \in {NoDate} \cup StartDates, e \in {NoDate} \cup EndDates, b \in Budgets }

NoTrip == TripDetails("", "", NoDate, NoDate, [totalBudget |-> 0, flightBudget |-> 0, hotelBudgetPerNight |-> 0, carBudgetPerDay |-> 0])

\* MissingDetails without the test of endDate.
MissingDetailsNoEnd(td) ==
  td.origin = "" \/ td.destination = "" \/ td.startDate = NoDate

\* !origin || !destination || !startDate || !endDate
MissingDetails(td) ==
  td.origin = "" \/ td.destination = "" \/ td.startDate = NoDate \/ td.endDate = NoDate

NoReport == [flight |-> NoQuote, hotel |-> NoQuote, car |-> NoQuote,
             totalCost |-> 0, withinTotalBudget |-> FALSE]

\* A response: its status and the fields of its JSON body.
Response(status, error, priceCheck, raindropEnabled) ==
  [status |-> status, error |-> error, priceCheck |-> priceCheck,
   raindropEnabled |-> raindropEnabled]
NoResponse == Response(0, "", NoReport, FALSE)

IdleLeg == [st |-> "idle", fetches |-> 0, sr |-> Null, quote |-> NoQuote,
            drawn |-> 0, read |-> <<>>, wrote |-> <<>>]

\* The draws of Math.random() of the model.
RandNums == {0, RandDen \div 2, RandDen - 1}

\* The calls of Math.random() of one request, at most: three by each of the
\* three lookups.
RandomCalls == 9

\* The next three values of the generator, for every state it can be in.
Draws == { <<a, b, c>> : a, b, c \in {0, RandDen - 1} }

\* The states Math.random() can be in when a request arrives: a state of
\* the generator is the values it will return, in order.
Streams ==
  { [k \in 1..RandomCalls |-> IF k <= 3 THEN d[1] ELSE IF k <= 6 THEN d[2] ELSE d[3]] : d \in Draws }

\* What the first try block of POST does with a SmartBucket failure: the
\* catch records it in raindropError and the request goes on.
CatchRaindrop(failed) == [raindropError |-> failed, rethrown |-> FALSE]

\* What the first try block does at its first write: it throws before the
\* write when RAINDROP_SMARTBUCKET_NAME is not set, or the put of the trip
\* configuration rejects, or it resolves.
RaindropOutcomes == {"no_bucket_name", "trip_put_fails", "ok"}

VARIABLES
  random,         \* Math.random: the values it will return, in order
  apiKey,         \* PERPLEXITY_API_KEY is set
  pc,             \* where the handler is
  tripDetails,    \* the parsed request body
  raindrop,       \* what happened in the first try block ("" before it)
  bucket,         \* the keys written to the SmartBucket by this request
  leg,            \* the three category lookups of checkAllPrices
  priceCheck,     \* the value checkAllPrices returned
  priceSaved,     \* "", or what the price snapshot write did
  first,          \* the lookup that returned (or threw) first, "" before
  response,       \* the response sent
  xUserId,        \* the x-user-id header of the request ("" when absent or empty)
  userId,         \* userId of POST ("" before getUserId is called)
  keyUserId,      \* the session id and the keys written, each with the user id in it
  respUserId,     \* the userId of the response body and its x-user-id header
  exText, exBand, exRnd, exResult, exPc,
  qKind,          \* the builder called last ("" before a call)
  qPrefs,         \* its argument
  qResult,        \* the string it returned, in pieces
  hStore,         \* the objects of the SmartBucket
  hClock,         \* the time, in ticks: Date.now() and the clock of the bucket service
  hRuns,          \* the runs of check-prices, each with the write it is at
  hUp,            \* the request to /api/upload
  hReq,           \* the get-price-history request
  hResp,          \* its response
  aPc,            \* where the agent handler is
  aReq,           \* the body of the request to /api/agent
  aCur,           \* currentSessionId
  aLog,           \* the calls made to Raindrop and to the model, in order, each pending or settled
  aMemories,      \* the number of memories retrieved
  aResp,          \* the response of the agent handler
  cMount,         \* the create-session request of AgentChat: pending, ok or failed
  cSessionId,     \* sessionId of AgentChat ("" for null)
  cInitializing,  \* initializingSession
  cInput,         \* input, a sequence of characters
  cLoading,       \* loading
  cMessages,      \* messages
  cInFlight,      \* the requests to /api/agent not answered yet
  cArrived,       \* the responses to them whose body is being read: ok or not
  cSent,          \* the requests sent to /api/agent so far
  uFile,          \* file of UploadInterface: its name, "" for null
  uLoading,       \* loading
  uError,         \* error ("" for null)
  uSuccess,       \* success ("" for null)
  uTab,           \* activeTab of SmartBucketDemo; UploadInterface is mounted on "upload"
  uUploads,       \* the calls of handleUpload not ended yet, in the order of their start
  uCount,         \* the calls of handleUpload so far
  uPuts,          \* the requests /api/upload has not answered yet
  uStored         \* the keys /api/upload has stored

idVars == <<xUserId, userId, keyUserId, respUserId>>
postVars == <<random, apiKey, pc, tripDetails, raindrop, bucket, leg, priceCheck, priceSaved, first, response, idVars>>
exVars == <<exText, exBand, exRnd, exResult, exPc>>
qVars == <<qKind, qPrefs, qResult>>
hVars == <<hStore, hClock, hRuns, hUp, hReq, hResp>>
aVars == <<aPc, aReq, aCur, aLog, aMemories, aResp>>
cVars == <<cMount, cSessionId, cInitializing, cInput, cLoading, cMessages, cInFlight, cArrived, cSent>>
uVars == <<uFile, uLoading, uError, uSuccess, uTab, uUploads, uCount, uPuts, uStored>>
vars == <<postVars, exVars, qVars, hVars, aVars, cVars, uVars>>

raindropError == raindrop \notin {"", "ok"}

\* getUserId, generated being what generateUserId returns
getUserId(header, generated) == IF header # "" THEN header ELSE generated

InitPost ==
  /\ random \in Streams
  /\ apiKey \in BOOLEAN
  /\ pc = "idle"
  /\ tripDetails = NoTrip
  /\ raindrop = ""
  /\ bucket = {}
  /\ leg = [c \in Categories |-> IdleLeg]
  /\ priceCheck = NoReport
  /\ priceSaved = ""
  /\ first = ""
  /\ response = NoResponse
  /\ xUserId \in {"", "u1"}
  /\ userId = ""
  /\ keyUserId = {}
  /\ respUserId = [body |-> "", header |-> ""]

\* request.json() throws, or its value has no properties (null): the outer
\* catch answers 500.
ReceiveInvalid ==
  /\ pc = "idle"
  /\ pc' = "responded"
  /\ response' = Response(500, "Failed to check prices", NoReport, FALSE)
  /\ UNCHANGED <<random, apiKey, first, tripDetails, raindrop, bucket, leg, priceCheck, priceSaved, exVars, qVars, hVars, aVars, idVars, cVars, uVars>>

\* POST, lines 528-536: a body with a missing detail is answered 400.
ReceiveMissing(td) ==
  /\ pc = "idle"
  /\ MissingDetails(td)
  /\ tripDetails' = td
  /\ pc' = "responded"
  /\ response' = Response(400, "Missing required trip details", NoReport, FALSE)
  /\ UNCHANGED <<random, apiKey, first, raindrop, bucket, leg, priceCheck, priceSaved, exVars, qVars, hVars, aVars, idVars, cVars, uVars>>

\* POST, lines 528-544: the body passes the validation; the user id is
\* taken and the session id built from it.
ReceiveValid(td, generated) ==
  /\ pc = "idle"
  /\ ~MissingDetails(td)
  /\ tripDetails' = td
  /\ userId' = getUserId(xUserId, generated)
  /\ keyUserId' = {<<"session", userId'>>}
  /\ pc' = "saving"
  /\ UNCHANGED <<random, apiKey, first, raindrop, bucket, leg, priceCheck, priceSaved, response, xUserId, respUserId, exVars, qVars, hVars, aVars, cVars, uVars>>

\* POST, lines 546-565 and 582-589: the first write of the first try block,
\* the trip configuration.  When it resolves the handler goes on to the
\* write of the preferences; a failure is caught and ends the try block.
SaveTripConfig(outcome) ==
  /\ pc = "saving"
  /\ LET c == CatchRaindrop(outcome # "ok")
     IN  /\ raindrop' = IF c.raindropError THEN outcome ELSE raindrop
         /\ bucket' = IF c.raindropError THEN bucket ELSE bucket \cup {"trip"}
         /\ keyUserId' = IF c.raindropError THEN keyUserId
                          ELSE keyUserId \cup {<<"trip", userId>>}
         /\ IF c.rethrown
            THEN /\ pc' = "responded"
                 /\ response' = Response(500, "Failed to check prices", NoReport, FALSE)
            ELSE /\ pc' = IF c.raindropError THEN "starting" ELSE "saving_preferences"
                 /\ UNCHANGED response
  /\ UNCHANGED <<random, apiKey, first, tripDetails, leg, priceCheck, priceSaved, xUserId, userId, respUserId, exVars, qVars, hVars, aVars, cVars, uVars>>

\* POST, lines 568-589: the write of the preferences resolves or rejects; a
\* failure is caught.
SavePreferences(putOk) ==
  /\ pc = "saving_preferences"
  /\ LET c == CatchRaindrop(~putOk)
     IN  /\ raindrop' = IF c.raindropError THEN "preferences_put_fails" ELSE "ok"
         /\ bucket' = IF c.raindropError THEN bucket ELSE bucket \cup {"preferences"}
         /\ keyUserId' = IF c.raindropError THEN keyUserId
                          ELSE keyUserId \cup {<<"preferences", userId>>}
         /\ IF c.rethrown
            THEN /\ pc' = "responded"
                 /\ response' = Response(500, "Failed to check prices", NoReport, FALSE)
            ELSE /\ pc' = "starting"
                 /\ UNCHANGED response
  /\ UNCHANGED <<random, apiKey, first, tripDetails, leg, priceCheck, priceSaved, xUserId, userId, respUserId, exVars, qVars, hVars, aVars, cVars, uVars>>

\* checkAllPrices, lines 487-499: the three lookups are called; each runs
\* to the fetch call of its searchPerplexity (line 118), which is made in
\* this step when an API key is set.
StartLookups ==
  /\ pc = "starting"
  /\ pc' = "checking"
  /\ leg' = [c \in Categories |->
               [IdleLeg EXCEPT !.st = "pending", !.fetches = IF apiKey THEN 1 ELSE 0]]
  /\ UNCHANGED <<random, apiKey, first, tripDetails, raindrop, bucket, priceCheck, priceSaved, response, exVars, qVars, hVars, aVars, idVars, cVars, uVars>>

\* CheckPrices on the inputs of the model, computed once.
CheckPricesTable ==
  [c \in Categories |->
    [sr \in {Null} \cup {Data(payload) : payload \in Payloads(c)} |->
      [rnd \in Draws |->
        [origin \in Origins |->
          [destination \in Destinations |-> CheckPrices(c, sr, rnd, origin, destination)]]]]]

\* searchPerplexity, lines 118-141: the fetch of the lookup of c resolves
\* with a response, whose body is then read: response.json() when the
\* status is 2xx, response.text() when it is not.
LegResponds(c, ok) ==
  /\ apiKey
  /\ leg[c].st = "pending"
  /\ leg' = [leg EXCEPT ![c].st = IF ok THEN "reading" ELSE "reading_error"]
  /\ UNCHANGED <<random, apiKey, pc, first, tripDetails, raindrop, bucket, priceCheck, priceSaved, response, exVars, qVars, hVars, aVars, idVars, cVars, uVars>>

\* The point searchPerplexity waits at before it returns with outcome: the
\* fetch (also when no key is set and no request is made), or the reading
\* of the body.
WaitsAt(outcome) ==
  CASE outcome = "non_2xx" -> "reading_error"
    [] outcome \in {"ok", "bad_json"} -> "reading"
    [] OTHER -> "pending"

\* The return of the lookup of c, sp being what its searchPerplexity call
\* gave and r what the lookup made of it.  The values it drew are the next
\* ones of Math.random; read and wrote are the states of the generator it
\* found and left, when it drew.
LegReturns(c, sp, r) ==
  /\ leg' = [leg EXCEPT ![c] =
               [st |-> IF sp.threw \/ r.threw THEN "threw" ELSE "done",
                fetches |-> sp.fetches,
                sr |-> sp.value,
                quote |-> IF sp.threw THEN NoQuote ELSE r.quote,
                drawn |-> IF sp.threw THEN 0 ELSE r.drawn,
                read |-> IF sp.threw \/ r.drawn = 0 THEN <<>> ELSE random,
                wrote |-> IF sp.threw \/ r.drawn = 0 THEN <<>>
                          ELSE SubSeq(random, r.drawn + 1, Len(random))]]
  /\ random' = SubSeq(random, (IF sp.threw THEN 0 ELSE r.drawn) + 1, Len(random))

\* One lookup from the last wait of its searchPerplexity call to its own
\* return.
LegStep(c, outcome, payload) ==
  /\ leg[c].st = IF apiKey THEN WaitsAt(outcome) ELSE "pending"
  /\ LegReturns(c, searchPerplexity(apiKey, outcome, payload),
                CheckPricesTable[c][searchPerplexity(apiKey, outcome, payload).value]
                                [SubSeq(random, 1, 3)][tripDetails.origin][tripDetails.destination])
  /\ first' = IF first = "" THEN c ELSE first
  /\ UNCHANGED <<apiKey, pc, tripDetails, raindrop, bucket, priceCheck, priceSaved, response, exVars, qVars, hVars, aVars, idVars, cVars, uVars>>

\* The lookup of c when no API key is set: no request is made.
LegNoKey(c) == ~apiKey /\ LegStep(c, "ok", PayloadEmpty)

\* The lookup of c when its gateway request fails.
LegFails(c, outcome) == apiKey /\ LegStep(c, outcome, PayloadEmpty)

\* The lookup of c when the gateway answers with a body that parses.
LegAnswers(c, payload) == apiKey /\ LegStep(c, "ok", payload)

\* Promise.all rejects with the first lookup that throws; checkAllPrices
\* rejects and the outer catch of POST answers 500.
LookupRejects ==
  /\ pc = "checking"
  /\ \E c \in Categories : leg[c].st = "threw"
  /\ pc' = "responded"
  /\ response' = Response(500, "Failed to check prices", NoReport, FALSE)
  /\ UNCHANGED <<random, apiKey, first, tripDetails, raindrop, bucket, leg, priceCheck, priceSaved, exVars, qVars, hVars, aVars, idVars, cVars, uVars>>

\* Aggregate without the wait for all three lookups: the totals are computed
\* as soon as one lookup has returned.
AggregateEarly ==
  /\ pc = "checking"
  /\ \E c \in Categories : leg[c].st = "done"
  /\ priceCheck' = PriceCheck(tripDetails, leg["flight"].quote, leg["hotel"].quote, leg["car"].quote)
  /\ pc' = "aggregated"
  /\ UNCHANGED <<random, apiKey, first, tripDetails, raindrop, bucket, leg, priceSaved, response, exVars, qVars, hVars, aVars, idVars, cVars, uVars>>

\* checkAllPrices, lines 501-523: all three lookups have returned.
Aggregate ==
  /\ pc = "checking"
  /\ \A c \in Categories : leg[c].st = "done"
  /\ priceCheck' = PriceCheck(tripDetails, leg["flight"].quote, leg["hotel"].quote, leg["car"].quote)
  /\ pc' = "aggregated"
  /\ UNCHANGED <<random, apiKey, first, tripDetails, raindrop, bucket, leg, priceSaved, response, exVars, qVars, hVars, aVars, idVars, cVars, uVars>>

\* Respond with raindropEnabled true only when the price snapshot was
\* written too.
RespondEnabledIfSaved(putOk) ==
  /\ pc = "aggregated"
  /\ IF ~raindropError
     THEN /\ priceSaved' = IF putOk THEN "ok" ELSE "price_put_fails"
          /\ bucket' = IF putOk THEN bucket \cup {"price"} ELSE bucket
          /\ keyUserId' = IF putOk THEN keyUserId \cup {<<"price", userId>>} ELSE keyUserId
     ELSE /\ putOk
          /\ UNCHANGED <<priceSaved, bucket, keyUserId>>
  /\ response' = Response(200, "", priceCheck, ~raindropError /\ putOk)
  /\ respUserId' = [body |-> userId, header |-> userId]
  /\ pc' = "responded"
  /\ UNCHANGED <<random, apiKey, first, tripDetails, raindrop, leg, priceCheck, xUserId, userId, exVars, qVars, hVars, aVars, cVars, uVars>>

\* Respond with getUserId called again for the key of the price snapshot.
RespondNewId(putOk) ==
  /\ pc = "aggregated"
  /\ IF ~raindropError
     THEN /\ priceSaved' = IF putOk THEN "ok" ELSE "price_put_fails"
          /\ bucket' = IF putOk THEN bucket \cup {"price"} ELSE bucket
          /\ keyUserId' = IF putOk THEN keyUserId \cup {<<"price", getUserId(xUserId, "g2")>>}
                          ELSE keyUserId
     ELSE /\ putOk
          /\ UNCHANGED <<priceSaved, bucket, keyUserId>>
  /\ response' = Response(200, "", priceCheck, ~raindropError)
  /\ respUserId' = [body |-> userId, header |-> userId]
  /\ pc' = "responded"
  /\ UNCHANGED <<random, apiKey, first, tripDetails, raindrop, leg, priceCheck, xUserId, userId, exVars, qVars, hVars, aVars, cVars, uVars>>

\* POST, lines 594-637: the price snapshot is written when nothing failed
\* before (a failure of this write is caught), and the response is sent
\* with the user id in its body and in its x-user-id header.
Respond(putOk) ==
  /\ pc = "aggregated"
  /\ IF ~raindropError
     THEN /\ priceSaved' = IF putOk THEN "ok" ELSE "price_put_fails"
          /\ bucket' = IF putOk THEN bucket \cup {"price"} ELSE bucket
          /\ keyUserId' = IF putOk THEN keyUserId \cup {<<"price", userId>>} ELSE keyUserId
     ELSE /\ putOk
          /\ UNCHANGED <<priceSaved, bucket, keyUserId>>
  /\ response' = Response(200, "", priceCheck, ~raindropError)
  /\ respUserId' = [body |-> userId, header |-> userId]
  /\ pc' = "responded"
  /\ UNCHANGED <<random, apiKey, first, tripDetails, raindrop, leg, priceCheck, xUserId, userId, exVars, qVars, hVars, aVars, cVars, uVars>>

Next ==
  \/ ReceiveInvalid
  \/ \E td \in Bodies : ReceiveMissing(td)
  \/ \E td \in Bodies, generated \in {"g1"} : ReceiveValid(td, generated)
  \/ \E outcome \in RaindropOutcomes : SaveTripConfig(outcome)
  \/ \E putOk \in BOOLEAN : SavePreferences(putOk)
  \/ StartLookups
  \/ \E c \in Categories, ok \in BOOLEAN : LegResponds(c, ok)
  \/ \E c \in Categories : LegNoKey(c)
  \/ \E c \in Categories, outcome \in GatewayFailures : LegFails(c, outcome)
  \/ \E c \in Categories : \E payload \in Payloads(c) : LegAnswers(c, payload)
  \/ LookupRejects
  \/ Aggregate
  \/ \E putOk \in BOOLEAN : Respond(putOk)

(***************************************************************************)
(* extractPrice on its own: a text is put together from chunks, then       *)
(* extractPrice is called on it with the band of one category.             *)
(***************************************************************************)
\* The longest text, in chunks.
MaxChunks == 3

Chunks ==
  { <<"$">>, <<"2","9","0">>, <<"1","5","0","0">>, <<"1",",","5","0","0">>,
    <<".","4","0">>, <<" ","U","S","D">>, <<" ","$","3","1","2"," ">>,
    <<"f","r","o","m"," ">>, <<"p","r","i","c","e",":"," ">>, <<"5">> }

Bands == <<FlightBand, HotelBand, CarBand>>

InitExtract ==
  /\ exText = <<>>
  /\ exBand = 1
  /\ exRnd = 0
  /\ exResult = 0
  /\ exPc = 0

\* One more chunk of the text.
AppendChunk(ch) ==
  /\ exPc < MaxChunks
  /\ exPc >= 0
  /\ exText' = exText \o ch
  /\ exPc' = exPc + 1
  /\ UNCHANGED <<exBand, exRnd, exResult, postVars, qVars, hVars, aVars, cVars, uVars>>

\* extractPrice(exText, Bands[b].lo, Bands[b].hi), Math.random() drawing rnd
CallExtractPrice(b, rnd) ==
  /\ exPc >= 0
  /\ exBand' = b
  /\ exRnd' = rnd
  /\ exResult' = extractPrice(exText, Bands[b].lo, Bands[b].hi, rnd)
  /\ exPc' = -1
  /\ UNCHANGED <<exText, postVars, qVars, hVars, aVars, cVars, uVars>>

NextExtract ==
  \/ \E ch \in Chunks : AppendChunk(ch)
  \/ \E b \in 1..Len(Bands), rnd \in RandNums : CallExtractPrice(b, rnd)

(***************************************************************************)
(* The preference clauses of the queries                                   *)
(*                                                                         *)
(* A string is the sequence of its pieces: the literal parts of the        *)
(* template and the values put between them.                               *)
(***************************************************************************)
\* String(n) of a number
RECURSIVE NumberString(_)
NumberString(n) ==
  IF n < 10 THEN DigitChars[n + 1]
  ELSE NumberString(n \div 10) \o DigitChars[(n % 10) + 1]

\* parts.join(', '), for a list of strings in pieces
RECURSIVE JoinParts(_)
JoinParts(parts) ==
  IF parts = <<>> THEN <<>>
  ELSE IF Len(parts) = 1 THEN parts[1]
  ELSE parts[1] \o <<", ">> \o JoinParts(Tail(parts))

\* parts.length > 0 ? `\nPreferences: ${parts.join(', ')}.` : ''
PreferencesSuffix(parts) ==
  IF Len(parts) > 0 THEN <<"\nPreferences: ">> \o JoinParts(parts) \o <<".">> ELSE <<>>

\* A part when the test of its field holds, nothing otherwise.
PartIf(test, part) == IF test THEN <<part>> ELSE <<>>

\* An absent preference set (undefined), and the sets of the model.  An
\* absent field is '', 0, FALSE or the empty list.
NoPrefs == [isAbsent |-> TRUE]

FlightPrefs ==
  { [isAbsent |-> FALSE, stops |-> st, preferredAirlines |-> pa, seatPreference |-> se,
     extraLegroom |-> el, timeOfDay |-> tod, baggageCount |-> bc] :
      st \in {"", "any", "direct"}, pa \in {<<>>, <<"Delta", "United">>},
      se \in {"", "aisle"}, el \in BOOLEAN, tod \in {"", "any", "morning"}, bc \in {0, 2} }

HotelPrefs ==
  { [isAbsent |-> FALSE, starRating |-> sr, roomType |-> rt, amenities |-> am,
     cancellationPolicy |-> cp] :
      sr \in {0, 3}, rt \in {"", "any", "suite"}, am \in {<<>>, <<"wifi", "spa">>, <<"constructor", "toString">>},
      cp \in {"", "any", "flexible"} }

CarPrefs ==
  { [isAbsent |-> FALSE, vehicleType |-> vt, transmission |-> tr, mileage |-> mi,
     features |-> fe] :
      vt \in {"", "any", "suv"}, tr \in {"", "any", "manual"}, mi \in {"", "unlimited"},
      fe \in {<<>>, <<"gps", "sunroof">>, <<"__proto__", "valueOf">>} }

\* buildFlightPreferencesQuery without the test of timeOfDay !== 'any'
buildFlightPreferencesQueryAny(prefs) ==
  IF prefs.isAbsent THEN <<>>
  ELSE PreferencesSuffix(
         PartIf(prefs.stops # "" /\ prefs.stops # "any", <<prefs.stops, " flights only">>)
         \o PartIf(Len(prefs.preferredAirlines) > 0,
                   <<"Prefer airlines: ">> \o JoinParts([k \in 1..Len(prefs.preferredAirlines) |-> <<prefs.preferredAirlines[k]>>]))
         \o PartIf(prefs.extraLegroom, <<"with extra legroom seats">>)
         \o PartIf(prefs.timeOfDay # "", <<prefs.timeOfDay, " departure time">>)
         \o PartIf(prefs.baggageCount # 0,
                   <<"including ", NumberString(prefs.baggageCount), " checked bag(s)">>))

buildFlightPreferencesQuery(prefs) ==
  IF prefs.isAbsent THEN <<>>
  ELSE PreferencesSuffix(
         PartIf(prefs.stops # "" /\ prefs.stops # "any", <<prefs.stops, " flights only">>)
         \o PartIf(Len(prefs.preferredAirlines) > 0,
                   <<"Prefer airlines: ">> \o JoinParts([k \in 1..Len(prefs.preferredAirlines) |-> <<prefs.preferredAirlines[k]>>]))
         \o PartIf(prefs.extraLegroom, <<"with extra legroom seats">>)
         \o PartIf(prefs.timeOfDay # "" /\ prefs.timeOfDay # "any",
                   <<prefs.timeOfDay, " departure time">>)
         \o PartIf(prefs.baggageCount # 0,
                   <<"including ", NumberString(prefs.baggageCount), " checked bag(s)">>))

\* The properties an object literal inherits from Object.prototype.
InheritedFunctions ==
  { "__defineGetter__", "__defineSetter__", "hasOwnProperty", "__lookupGetter__",
    "__lookupSetter__", "isPrototypeOf", "propertyIsEnumerable", "toString",
    "valueOf", "toLocaleString" }

\* String(({})[name]) as join(', ') writes it, "" when the object literal
\* inherits no property of that name: the source text of a function, and
\* '[object Object]' for the prototype itself.
InheritedProperty(name) ==
  CASE name = "constructor" -> "function Object() { [native code] }"
    [] name = "__proto__" -> "[object Object]"
    [] name \in InheritedFunctions -> "function " \o name \o "() { [native code] }"
    [] OTHER -> ""

\* amenityMap[a] || a: an own property, else an inherited one (truthy, so
\* a is not taken), else a.
amenityMap(a) ==
  CASE a = "wifi" -> "free WiFi"
    [] a = "breakfast" -> "breakfast included"
    [] a = "gym" -> "fitness center"
    [] a = "pool" -> "swimming pool"
    [] a = "parking" -> "free parking"
    [] InheritedProperty(a) # "" -> InheritedProperty(a)
    [] OTHER -> a

buildHotelPreferencesQuery(prefs) ==
  IF prefs.isAbsent THEN <<>>
  ELSE PreferencesSuffix(
         PartIf(prefs.starRating # 0, <<NumberString(prefs.starRating), "-star rating or better">>)
         \o PartIf(prefs.roomType # "" /\ prefs.roomType # "any", <<prefs.roomType, " room">>)
         \o PartIf(Len(prefs.amenities) > 0,
                   <<"with ">> \o JoinParts([k \in 1..Len(prefs.amenities) |-> <<amenityMap(prefs.amenities[k])>>]))
         \o PartIf(prefs.cancellationPolicy # "" /\ prefs.cancellationPolicy # "any",
                   <<prefs.cancellationPolicy, " cancellation policy">>))

\* featureMap[f] || f: an own property, else an inherited one, else f.
featureMap(f) ==
  CASE f = "gps" -> "GPS navigation"
    [] f = "bluetooth" -> "Bluetooth"
    [] f = "backup-camera" -> "backup camera"
    [] f = "usb" -> "USB ports"
    [] f = "carplay" -> "Apple CarPlay"
    [] InheritedProperty(f) # "" -> InheritedProperty(f)
    [] OTHER -> f

buildCarRentalPreferencesQuery(prefs) ==
  IF prefs.isAbsent THEN <<>>
  ELSE PreferencesSuffix(
         PartIf(prefs.vehicleType # "" /\ prefs.vehicleType # "any", <<prefs.vehicleType, " vehicle">>)
         \o PartIf(prefs.transmission # "" /\ prefs.transmission # "any",
                   <<prefs.transmission, " transmission">>)
         \o PartIf(prefs.mileage # "", <<prefs.mileage, " mileage">>)
         \o PartIf(Len(prefs.features) > 0,
                   <<"with ">> \o JoinParts([k \in 1..Len(prefs.features) |-> <<featureMap(prefs.features[k])>>])))

InitQuery ==
  /\ qKind = ""
  /\ qPrefs = NoPrefs
  /\ qResult = <<>>

CallBuildFlight(prefs) ==
  /\ qKind' = "flight"
  /\ qPrefs' = prefs
  /\ qResult' = buildFlightPreferencesQuery(prefs)
  /\ UNCHANGED <<postVars, exVars, hVars, aVars, cVars, uVars>>

CallBuildHotel(prefs) ==
  /\ qKind' = "hotel"
  /\ qPrefs' = prefs
  /\ qResult' = buildHotelPreferencesQuery(prefs)
  /\ UNCHANGED <<postVars, exVars, hVars, aVars, cVars, uVars>>

CallBuildCar(prefs) ==
  /\ qKind' = "car"
  /\ qPrefs' = prefs
  /\ qResult' = buildCarRentalPreferencesQuery(prefs)
  /\ UNCHANGED <<postVars, exVars, hVars, aVars, cVars, uVars>>

NextQuery ==
  \/ \E prefs \in {NoPrefs} \cup FlightPrefs : CallBuildFlight(prefs)
  \/ \E prefs \in {NoPrefs} \cup HotelPrefs : CallBuildHotel(prefs)
  \/ \E prefs \in {NoPrefs} \cup CarPrefs : CallBuildCar(prefs)

(***************************************************************************)
(* get-price-history                                                       *)
(*                                                                         *)
(* User ids and object keys are sequences of characters.  The bucket the   *)
(* route reads is written by check-prices (three awaited puts a run) and   *)
(* by /api/upload (any key, any content); each awaited call of the routes  *)
(* resolves in a step of its own, so reads and writes interleave.          *)
(***************************************************************************)
\* The x-user-id values of the model.
UserIds == { <<"a">>, <<"a", "-", "b">> }

\* The runs of check-prices that are started, at most.
MaxRuns == 2

\* The last tick of the clock.
MaxClock == 2

\* `${kind}-${userId}-${timestamp}`, kind being trip or price
ObjectKey(kind, uid, timestamp) ==
  kind \o <<"-">> \o uid \o <<"-">> \o NumberString(timestamp)

KindPrice == <<"p", "r", "i", "c", "e">>

\* `preferences-${userId}`
PreferencesKey(uid) ==
  <<"p", "r", "e", "f", "e", "r", "e", "n", "c", "e", "s", "-">> \o uid

\* key.startsWith(prefix)
StartsWith(key, prefix) ==
  Len(key) >= Len(prefix) /\ SubSeq(key, 1, Len(prefix)) = prefix

\* The content of an object.  json says whether it decodes to a JSON object
\* and lastModified is the lastModified field of that object (0 when it has
\* none); kind and owner say what wrote it ("trip", "preferences" and
\* "price" for check-prices, "upload") and for which user: they are no part
\* of the stored bytes.
Content(kind, owner, json, lastModified) ==
  [kind |-> kind, owner |-> owner, json |-> json, lastModified |-> lastModified]

\* saveToSmartBucket: what check-prices writes is JSON.stringify of an
\* object without a lastModified field.
Saved(kind, uid) == Content(kind, uid, TRUE, 0)

\* client.bucket.put: the object replaces the one of the same key, if any;
\* the service stamps it with the time of the write.
BucketPut(store, key, content, now) ==
  {obj \in store : obj.key # key}
    \cup {[key |-> key, lastModified |-> now, content |-> content]}

\* One sequence that holds each element of a set once.
RECURSIVE SomeOrder(_)
SomeOrder(set) ==
  IF set = {} THEN <<>>
  ELSE LET x == CHOOSE y \in set : TRUE IN <<x>> \o SomeOrder(set \ {x})

\* The sequences that hold each element of a set once.
RECURSIVE Orders(_)
Orders(set) ==
  IF set = {} THEN {<<>>}
  ELSE UNION {{<<x>> \o rest : rest \in Orders(set \ {x})} : x \in set}

\* What client.bucket.list may resolve with for a request of uid: the
\* objects of the bucket in an order the service chooses.  The objects the
\* key filter of GET lets through come in any order; where the other ones
\* stand makes no difference to the history, and they are listed last.
Listings(store, uid) ==
  LET through == {obj \in store : StartsWith(obj.key, KindPrice \o <<"-">> \o uid \o <<"-">>)}
      others  == SomeOrder(store \ through)
  IN  {order \o others : order \in Orders(through)}

\* parseInt(url.searchParams.get('limit') || '20', 10), for a parameter of
\* digits; NaN is 0 here, as slice(0, NaN) is slice(0, 0).
RECURSIVE ParseDigits(_, _)
ParseDigits(chars, acc) ==
  IF chars = <<>> \/ ~IsDigit(chars[1]) THEN acc
  ELSE ParseDigits(Tail(chars), 10 * acc + DigitVal(chars[1]))

ParseLimit(param) == IF param = <<>> THEN 20 ELSE ParseDigits(param, 0)

\* objs.sort((a, b) => time(b) - time(a)): newest first, stable
RECURSIVE SortNewest(_)
SortNewest(objs) ==
  IF objs = <<>> THEN <<>>
  ELSE LET rest == SortNewest(SubSeq(objs, 1, Len(objs) - 1))
           last == objs[Len(objs)]
           n    == Cardinality({k \in DOMAIN rest : rest[k].lastModified >= last.lastModified})
       IN  SubSeq(rest, 1, n) \o <<last>> \o SubSeq(rest, n + 1, Len(rest))

\* GET, lines 43-45: priceObjects, the objects listed whose key has the
\* prefix of the user.
PriceObjects(listing, uid) ==
  SelectSeq(listing, LAMBDA obj : StartsWith(obj.key, KindPrice \o <<"-">> \o uid \o <<"-">>))

\* GET, lines 50-56: sortedObjects, priceObjects sorted and cut to the limit.
SortedObjects(priceObjects, limit) ==
  LET sorted == SortNewest(priceObjects)
  IN  SubSeq(sorted, 1, IF limit < Len(sorted) THEN limit ELSE Len(sorted))

\* The value of one callback of sortedObjects.map (lines 60-82) for the
\* listed object obj when client.bucket.get resolves with content (got) or
\* rejects: null when the get rejects or the content does not decode, else
\* the entry, in which the fields of the decoded content come last and
\* replace those of the same name (lastModified, here: no content of the
\* model has a key field).  The other fields of an entry are left out.
NullEntry == [isNull |-> TRUE, key |-> <<>>, lastModified |-> 0, kind |-> "", owner |-> <<>>]
HistoryEntry(obj, got, content) ==
  IF ~got \/ ~content.json THEN NullEntry
  ELSE [isNull |-> FALSE,
        key |-> obj.key,
        lastModified |-> IF content.lastModified # 0 THEN content.lastModified
                         ELSE obj.lastModified,
        kind |-> content.kind,
        owner |-> content.owner]

\* validHistory with one failed fetch emptying the whole history.
ValidHistoryAllOrNone(entries) ==
  IF \E k \in DOMAIN entries : entries[k].isNull THEN <<>> ELSE entries

\* priceHistory.filter(h => h !== null)
ValidHistory(entries) == SelectSeq(entries, LAMBDA h : ~h.isNull)

HistoryResponse(status, success, history) ==
  [status |-> status, success |-> success, count |-> Len(history), history |-> history]

\* A get-price-history request: st is "" (none yet), "listing" (list
\* pending), "fetching" (gets pending) or "responded"; failed says whether
\* the client or the list failed; priceObjects are the objects listed that
\* passed the key filter; items are the sortedObjects, each with
\* its get: pending or resolved, with the content it gave and what came of
\* it.
NoRequest == [st |-> "", userId |-> <<>>, limitParam |-> <<>>, failed |-> FALSE,
              priceObjects |-> <<>>, items |-> <<>>]

\* The request to /api/upload of the model: st is "" (none yet), "putting"
\* or "responded".
NoUpload == [st |-> "", key |-> <<>>, content |-> Content("", <<>>, FALSE, 0),
             bucketToUse |-> "", status |-> 0]

\* The bucket get-price-history lists and check-prices writes to.
BucketName == "BudgetTravelGuardian-sb"

InitHistory ==
  /\ hStore = {}
  /\ hClock = 1
  /\ hRuns = <<>>
  /\ hUp = NoUpload
  /\ hReq = NoRequest
  /\ hResp = HistoryResponse(0, FALSE, <<>>)

\* Time goes by.
Tick ==
  /\ hClock < MaxClock
  /\ hClock' = hClock + 1
  /\ UNCHANGED <<hStore, hRuns, hUp, hReq, hResp, postVars, exVars, qVars, aVars, cVars, uVars>>

\* A run of check-prices for uid begins (POST, lines 539-565): timestamp is
\* Date.now(), and the put of the trip configuration is made.
RunCheckPrices(uid) ==
  /\ Len(hRuns) < MaxRuns
  /\ hRuns' = Append(hRuns, [userId |-> uid, timestamp |-> hClock, next |-> "trip"])
  /\ UNCHANGED <<hStore, hClock, hUp, hReq, hResp, postVars, exVars, qVars, aVars, cVars, uVars>>

\* The key of the write a run waits for.
RunKey(run) ==
  CASE run.next = "trip" -> ObjectKey(<<"t", "r", "i", "p">>, run.userId, run.timestamp)
    [] run.next = "preferences" -> PreferencesKey(run.userId)
    [] OTHER -> ObjectKey(KindPrice, run.userId, run.timestamp)

\* A run that writes nothing more.
RunDone == [userId |-> <<>>, timestamp |-> 0, next |-> "done"]

\* The pending put of run r resolves or rejects (POST, lines 565, 578, 605).
\* After the trip configuration come the preferences, then checkAllPrices;
\* a put of the first try block that rejects sets raindropError, and the
\* run writes nothing more; the price snapshot is the last write.
RunPutResolves(r, putOk) ==
  /\ r \in DOMAIN hRuns
  /\ hRuns[r].next \in {"trip", "preferences", "price"}
  /\ hStore' = IF putOk
               THEN BucketPut(hStore, RunKey(hRuns[r]), Saved(hRuns[r].next, hRuns[r].userId),
                              hClock)
               ELSE hStore
  /\ hRuns' = [hRuns EXCEPT ![r] =
                 CASE ~putOk \/ hRuns[r].next = "price" -> RunDone
                   [] hRuns[r].next = "trip" -> [hRuns[r] EXCEPT !.next = "preferences"]
                   [] OTHER -> [hRuns[r] EXCEPT !.next = "checking"]]
  /\ UNCHANGED <<hClock, hUp, hReq, hResp, postVars, exVars, qVars, aVars, cVars, uVars>>

\* checkAllPrices of run r returns (POST, lines 592-605): the put of the
\* price snapshot is made.
RunChecked(r) ==
  /\ r \in DOMAIN hRuns
  /\ hRuns[r].next = "checking"
  /\ hRuns' = [hRuns EXCEPT ![r].next = "price"]
  /\ UNCHANGED <<hStore, hClock, hUp, hReq, hResp, postVars, exVars, qVars, aVars, cVars, uVars>>

\* The keys and the contents sent to /api/upload in the model: a document
\* that is no JSON, a JSON object, a JSON object with a lastModified field.
UploadKeys == { <<>>, ObjectKey(KindPrice, <<"a">>, 1) }
UploadContents ==
  { Content("upload", <<>>, FALSE, 0), Content("upload", <<>>, TRUE, 0),
    Content("upload", <<>>, TRUE, MaxClock + 1) }

\* POST of /api/upload, lines 8-33: key, content and bucketName come from
\* the body (bucketName "" when absent); RAINDROP_SMARTBUCKET_NAME is set to
\* the bucket of check-prices, so bucketToUse is never empty.  The content
\* of a body is never empty in the model, and a request that writes nothing
\* to the bucket of check-prices is made with one content only.
UploadPOST(key, content, bucketName) ==
  /\ hUp.st = ""
  /\ (key = <<>> \/ bucketName # "") => ~content.json
  /\ hUp' = IF key = <<>>
            THEN [NoUpload EXCEPT !.st = "responded", !.status = 400]
            ELSE [st |-> "putting", key |-> key, content |-> content,
                  bucketToUse |-> IF bucketName # "" THEN bucketName ELSE BucketName,
                  status |-> 0]
  /\ UNCHANGED <<hStore, hClock, hRuns, hReq, hResp, postVars, exVars, qVars, aVars, cVars, uVars>>

\* POST of /api/upload, lines 28-54: the put resolves (200) or rejects (500).
UploadPutResolves(putOk) ==
  /\ hUp.st = "putting"
  /\ hStore' = IF putOk /\ hUp.bucketToUse = BucketName
               THEN BucketPut(hStore, hUp.key, hUp.content, hClock)
               ELSE hStore
  /\ hUp' = [NoUpload EXCEPT !.st = "responded", !.status = IF putOk THEN 200 ELSE 500]
  /\ UNCHANGED <<hClock, hRuns, hReq, hResp, postVars, exVars, qVars, aVars, cVars, uVars>>

\* The answer to a request once every get of its items has resolved
\* (lines 86-101).
Answer(items) ==
  HistoryResponse(200, TRUE, ValidHistory([k \in DOMAIN items |-> items[k].entry]))

\* The answer of the inner catch (lines 103-121).
EmptyAnswer == HistoryResponse(200, FALSE, <<>>)

\* GET of get-price-history, lines 12-38: uid (userId) and limitParam
\* (limit) are the query parameters, clientOk says whether getRaindropClient
\* and getSmartBucketLocation return.  Without a userId the answer is 400;
\* when they throw, the inner catch answers; else the list is made.  One
\* request is followed; the limit plays no part in a request that ends here.
GET(uid, limitParam, clientOk) ==
  /\ hReq.st = ""
  /\ (uid = <<>> \/ ~clientOk) => limitParam = <<>>
  /\ uid = <<>> => clientOk
  /\ hReq' = [NoRequest EXCEPT !.userId = uid, !.limitParam = limitParam,
                               !.failed = ~clientOk,
                               !.st = IF uid = <<>> \/ ~clientOk THEN "responded" ELSE "listing"]
  /\ hResp' = IF uid = <<>> THEN HistoryResponse(400, FALSE, <<>>)
              ELSE IF ~clientOk THEN EmptyAnswer
              ELSE hResp
  /\ UNCHANGED <<hStore, hClock, hRuns, hUp, postVars, exVars, qVars, aVars, cVars, uVars>>

\* GET, lines 36-62: client.bucket.list resolves with listing or rejects.
\* The snapshots are selected, priceObjects is sorted in place (sort returns
\* the array it was called on) and a get is made for each object of the
\* slice; with none of them the answer is sent in this step.
GETListResolves(listOk, listing) ==
  /\ hReq.st = "listing"
  /\ ~listOk => listing = <<>>
  /\ LET priceObjects == PriceObjects(listing, hReq.userId)
         objs == SortedObjects(priceObjects, ParseLimit(hReq.limitParam))
         items == [k \in DOMAIN objs |->
                     [obj |-> objs[k], pending |-> TRUE, got |-> FALSE,
                      content |-> objs[k].content, entry |-> NullEntry]]
     IN  IF ~listOk
         THEN /\ hReq' = [hReq EXCEPT !.st = "responded", !.failed = TRUE]
              /\ hResp' = EmptyAnswer
         ELSE /\ hReq' = [hReq EXCEPT !.priceObjects = SortNewest(priceObjects), !.items = items,
                                      !.st = IF items = <<>> THEN "responded" ELSE "fetching"]
              /\ hResp' = IF items = <<>> THEN Answer(items) ELSE hResp
  /\ UNCHANGED <<hStore, hClock, hRuns, hUp, postVars, exVars, qVars, aVars, cVars, uVars>>

\* The object of the bucket with this key.
ObjectAt(store, key) == CHOOSE obj \in store : obj.key = key

\* GET, lines 62-101: the get of item k resolves with the content the
\* object has now, or rejects; after the last one the answer is sent.
GETGetResolves(k, getOk) ==
  /\ hReq.st = "fetching"
  /\ k \in DOMAIN hReq.items
  /\ hReq.items[k].pending
  /\ LET obj == hReq.items[k].obj
         content == ObjectAt(hStore, obj.key).content
         items == [hReq.items EXCEPT ![k] =
                     [obj |-> obj, pending |-> FALSE, got |-> getOk, content |-> content,
                      entry |-> HistoryEntry(obj, getOk, content)]]
         all == \A j \in DOMAIN items : ~items[j].pending
     IN  /\ hReq' = [hReq EXCEPT !.items = items,
                                 !.st = IF all THEN "responded" ELSE "fetching"]
         /\ hResp' = IF all THEN Answer(items) ELSE hResp
  /\ UNCHANGED <<hStore, hClock, hRuns, hUp, postVars, exVars, qVars, aVars, cVars, uVars>>

NextHistory ==
  \/ Tick
  \/ \E uid \in UserIds : RunCheckPrices(uid)
  \/ \E r \in 1..MaxRuns, putOk \in BOOLEAN : RunPutResolves(r, putOk)
  \/ \E r \in 1..MaxRuns : RunChecked(r)
  \/ \E key \in UploadKeys, content \in UploadContents, bucketName \in {"", "other"} :
       UploadPOST(key, content, bucketName)
  \/ \E putOk \in BOOLEAN : UploadPutResolves(putOk)
  \/ \E uid \in UserIds \cup {<<>>}, limitParam \in {<<>>, <<"0">>, <<"1">>},
        clientOk \in BOOLEAN : GET(uid, limitParam, clientOk)
  \/ /\ hReq.st = "listing"
     /\ \E listOk \in BOOLEAN : \E listing \in Listings(hStore, hReq.userId) \cup {<<>>} :
          GETListResolves(listOk, listing)
  \/ \E k \in 1..(MaxRuns + 1), getOk \in BOOLEAN : GETGetResolves(k, getOk)

(***************************************************************************)
(* POST /api/agent                                                         *)
(*                                                                         *)
(* "" stands for a message or a sessionId that is missing or empty.        *)
(***************************************************************************)
\* The bodies of the model.
AgentBodies == [message : {"", "hello", "thanks"}, sessionId : {"", "s1", "s2"}]

AgentResponse(status, sessionId, memoryCount) ==
  [status |-> status, sessionId |-> sessionId, memoryCount |-> memoryCount]

InitAgent ==
  /\ aPc = "idle"
  /\ aReq = [message |-> "", sessionId |-> ""]
  /\ aCur = ""
  /\ aLog = <<>>
  /\ aMemories = 0
  /\ aResp = AgentResponse(0, "", 0)

\* A call is made: it is logged as pending.
Called(log, op, sessionId) ==
  Append(log, [op |-> op, sessionId |-> sessionId, st |-> "pending"])

\* The pending call, the last one of the log, resolves or rejects.
Settled(log, ok) == [log EXCEPT ![Len(log)].st = IF ok THEN "ok" ELSE "failed"]

\* AgentReceive with a session started whether or not the body has an id.
AgentReceiveAlways(body, envSet) ==
  /\ aPc = "idle"
  /\ aReq' = body
  /\ IF body.message = ""
     THEN aPc' = "done" /\ aResp' = AgentResponse(400, "", 0) /\ UNCHANGED <<aCur, aLog>>
     ELSE IF ~envSet
     THEN aPc' = "done" /\ aResp' = AgentResponse(500, "", 0) /\ UNCHANGED <<aCur, aLog>>
     ELSE /\ aCur' = body.sessionId
          /\ aPc' = "session"
          /\ aLog' = Called(aLog, "create", "")
          /\ UNCHANGED aResp
  /\ UNCHANGED <<aMemories, postVars, exVars, qVars, hVars, cVars, uVars>>

\* POST, lines 9-83: the body is read and the message and the environment
\* are checked; startSession.create is called when the body has no
\* sessionId, getMemory.retrieve when it has one.
AgentReceive(body, envSet) ==
  /\ aPc = "idle"
  /\ aReq' = body
  /\ IF body.message = ""
     THEN aPc' = "done" /\ aResp' = AgentResponse(400, "", 0) /\ UNCHANGED <<aCur, aLog>>
     ELSE IF ~envSet
     THEN aPc' = "done" /\ aResp' = AgentResponse(500, "", 0) /\ UNCHANGED <<aCur, aLog>>
     ELSE /\ aCur' = body.sessionId
          /\ aPc' = IF body.sessionId = "" THEN "session" ELSE "memory"
          /\ aLog' = IF body.sessionId = "" THEN Called(aLog, "create", "")
                     ELSE Called(aLog, "retrieve", body.sessionId)
          /\ UNCHANGED aResp
  /\ UNCHANGED <<aMemories, postVars, exVars, qVars, hVars, cVars, uVars>>

\* POST, lines 67-83: startSession.create returns a session, with whose id
\* getMemory.retrieve is called, or fails.
AgentStartSession(ok, id) ==
  /\ aPc = "session"
  /\ LET log == [Settled(aLog, ok) EXCEPT ![Len(aLog)].sessionId = IF ok THEN id ELSE ""]
     IN  IF ok
         THEN /\ aCur' = id
              /\ aLog' = Called(log, "retrieve", id)
              /\ aPc' = "memory"
              /\ UNCHANGED aResp
         ELSE /\ aLog' = log
              /\ aPc' = "done"
              /\ aResp' = AgentResponse(500, "", 0)
              /\ UNCHANGED aCur
  /\ UNCHANGED <<aReq, aMemories, postVars, exVars, qVars, hVars, cVars, uVars>>

\* POST, lines 78-103: getMemory.retrieve returns n memories, and
\* messages.create is called, or fails.
AgentGetMemory(ok, n) ==
  /\ aPc = "memory"
  /\ IF ok
     THEN /\ aMemories' = n
          /\ aLog' = Called(Settled(aLog, TRUE), "model", "")
          /\ aPc' = "model"
          /\ UNCHANGED aResp
     ELSE /\ aLog' = Settled(aLog, FALSE)
          /\ aPc' = "done"
          /\ aResp' = AgentResponse(500, "", 0)
          /\ UNCHANGED aMemories
  /\ UNCHANGED <<aReq, aCur, postVars, exVars, qVars, hVars, cVars, uVars>>

\* AgentCallModel with a failed model call answered by an empty reply.
AgentCallModelLenient(outcome) ==
  /\ aPc = "model"
  /\ aLog' = Called(Settled(aLog, outcome # "fails"), "put", aCur)
  /\ aPc' = "storing"
  /\ UNCHANGED <<aReq, aCur, aMemories, aResp, postVars, exVars, qVars, hVars, cVars, uVars>>

\* POST, lines 93-116: messages.create returns a reply, and putMemory.create
\* is called; or it returns one with no content block (reading
\* content[0].type throws), or fails.
AgentCallModel(outcome) ==
  /\ aPc = "model"
  /\ IF outcome = "ok"
     THEN /\ aLog' = Called(Settled(aLog, TRUE), "put", aCur)
          /\ aPc' = "storing"
          /\ UNCHANGED aResp
     ELSE /\ aLog' = Settled(aLog, outcome # "fails")
          /\ aPc' = "done"
          /\ aResp' = AgentResponse(500, "", 0)
  /\ UNCHANGED <<aReq, aCur, aMemories, postVars, exVars, qVars, hVars, cVars, uVars>>

\* POST, lines 110-142: putMemory.create stores the interaction or fails;
\* the response is sent.
AgentPutMemory(ok) ==
  /\ aPc = "storing"
  /\ aLog' = Settled(aLog, ok)
  /\ aPc' = "done"
  /\ aResp' = IF ok THEN AgentResponse(200, aCur, aMemories) ELSE AgentResponse(500, "", 0)
  /\ UNCHANGED <<aReq, aCur, aMemories, postVars, exVars, qVars, hVars, cVars, uVars>>

NextAgent ==
  \/ \E body \in AgentBodies, envSet \in BOOLEAN : AgentReceive(body, envSet)
  \/ \E ok \in BOOLEAN, id \in {"n1", "s1"} : AgentStartSession(ok, id)
  \/ \E ok \in BOOLEAN, n \in {0, 1, 5} : AgentGetMemory(ok, n)
  \/ \E outcome \in {"ok", "no_content", "fails"} : AgentCallModel(outcome)
  \/ \E ok \in BOOLEAN : AgentPutMemory(ok)

(***************************************************************************)
(* AgentChat                                                               *)
(***************************************************************************)
\* The sends followed, at most.
MaxSends == 2

\* input.trim()
Trim(chars) ==
  LET inked == {k \in DOMAIN chars : ~IsSpace(chars[k])}
  IN  IF inked = {} THEN <<>>
      ELSE SubSeq(chars, CHOOSE k \in inked : \A n \in inked : k <= n,
                         CHOOSE k \in inked : \A n \in inked : k >= n)

\* The component is mounted: the effect has sent the create-session request.
InitChat ==
  /\ cMount = "pending"
  /\ cSessionId = ""
  /\ cInitializing = TRUE
  /\ cInput = <<>>
  /\ cLoading = FALSE
  /\ cMessages = <<>>
  /\ cInFlight = 0
  /\ cArrived = <<>>
  /\ cSent = 0

\* initializeSession, lines 162-173: the fetch resolves with a response,
\* ok or not, whose body is then read.
initializeSessionResponds(ok) ==
  /\ cMount = "pending"
  /\ cMount' = IF ok THEN "reading" ELSE "reading_error"
  /\ UNCHANGED <<cSessionId, cInitializing, cInput, cLoading, cMessages, cInFlight, cArrived, cSent, postVars, exVars, qVars, hVars, aVars, uVars>>

\* initializeSession, lines 162-182, at its end.  outcome: the body of an ok
\* response is read and holds the sessionId id; the body of a response that
\* is not ok is read; the fetch or the reading of a body throws.
initializeSession(outcome, id) ==
  /\ cMount = CASE outcome = "ok" -> "reading"
                [] outcome = "not_ok" -> "reading_error"
                [] outcome = "bad_body" -> IF cMount = "reading_error" THEN cMount ELSE "reading"
                [] OTHER -> "pending"
  /\ cMount' = IF outcome = "ok" THEN "ok" ELSE "failed"
  /\ cSessionId' = IF outcome = "ok" THEN id ELSE cSessionId
  /\ cInitializing' = FALSE
  /\ UNCHANGED <<cInput, cLoading, cMessages, cInFlight, cArrived, cSent, postVars, exVars, qVars, hVars, aVars, uVars>>

\* The text field, lines 373-380: setInput, unless the field is disabled.
ChatType(text) ==
  /\ ~(cLoading \/ cInitializing)
  /\ cInput' = text
  /\ UNCHANGED <<cMount, cSessionId, cInitializing, cLoading, cMessages, cInFlight, cArrived, cSent, postVars, exVars, qVars, hVars, aVars, uVars>>

\* sendMessage without the test of sessionId.
sendMessageNoSession ==
  /\ cSent < MaxSends
  /\ IF Trim(cInput) = <<>> \/ cLoading
     THEN UNCHANGED <<cInput, cMessages, cLoading, cInFlight, cSent>>
     ELSE /\ cInput' = <<>>
          /\ cMessages' = Append(cMessages, [role |-> "user", content |-> Trim(cInput)])
          /\ cLoading' = TRUE
          /\ cInFlight' = cInFlight + 1
          /\ cSent' = cSent + 1
  /\ UNCHANGED <<cMount, cSessionId, cInitializing, cArrived, postVars, exVars, qVars, hVars, aVars, uVars>>

\* sendMessage, lines 187-207, up to its fetch: a submit of the form.
sendMessage ==
  /\ cSent < MaxSends
  /\ IF Trim(cInput) = <<>> \/ cLoading \/ cSessionId = ""
     THEN UNCHANGED <<cInput, cMessages, cLoading, cInFlight, cSent>>
     ELSE /\ cInput' = <<>>
          /\ cMessages' = Append(cMessages, [role |-> "user", content |-> Trim(cInput)])
          /\ cLoading' = TRUE
          /\ cInFlight' = cInFlight + 1
          /\ cSent' = cSent + 1
  /\ UNCHANGED <<cMount, cSessionId, cInitializing, cArrived, postVars, exVars, qVars, hVars, aVars, uVars>>

\* sendMessage, lines 209-222: the fetch of a request resolves with a
\* response, ok or not, whose body is then read.
ChatResponds(ok) ==
  /\ Len(cArrived) < cInFlight
  /\ cArrived' = Append(cArrived, ok)
  /\ UNCHANGED <<cMount, cSessionId, cInitializing, cInput, cLoading, cMessages, cInFlight, cSent, postVars, exVars, qVars, hVars, aVars, uVars>>

\* The responses arrived less the first one that is ok, or is not.
RECURSIVE LessOne(_, _)
LessOne(arrived, ok) ==
  IF arrived = <<>> THEN <<>>
  ELSE IF Head(arrived) = ok THEN Tail(arrived)
  ELSE <<Head(arrived)>> \o LessOne(Tail(arrived), ok)

\* sendMessage, lines 209-229, at its end.  outcome: the body of an ok
\* response is read and holds a reply and the sessionId id; the body of a
\* response that is not ok is read, and an Error is thrown; the reading of
\* a body throws; the fetch throws.
ChatReply(outcome, id) ==
  /\ cInFlight > 0
  /\ CASE outcome = "ok" ->
            /\ \E k \in DOMAIN cArrived : cArrived[k]
            /\ cArrived' = LessOne(cArrived, TRUE)
       [] outcome = "not_ok" ->
            /\ \E k \in DOMAIN cArrived : ~cArrived[k]
            /\ cArrived' = LessOne(cArrived, FALSE)
       [] outcome = "bad_body" ->
            /\ cArrived # <<>>
            /\ cArrived' = Tail(cArrived)
       [] OTHER ->
            /\ Len(cArrived) < cInFlight
            /\ UNCHANGED cArrived
  /\ cInFlight' = cInFlight - 1
  /\ IF outcome = "ok"
     THEN /\ cMessages' = Append(cMessages, [role |-> "assistant", content |-> <<"reply">>])
          /\ cSessionId' = id
     ELSE /\ cMessages' = Append(cMessages, [role |-> "assistant", content |-> <<"Sorry">>])
          /\ UNCHANGED cSessionId
  /\ cLoading' = FALSE
  /\ UNCHANGED <<cMount, cInitializing, cInput, cSent, postVars, exVars, qVars, hVars, aVars, uVars>>

NextChat ==
  \/ \E ok \in BOOLEAN : initializeSessionResponds(ok)
  \/ \E outcome \in {"ok", "not_ok", "bad_body", "throws"}, id \in {"", "s1"} :
       initializeSession(outcome, id)
  \/ \E text \in {<<>>, <<" ">>, <<"h", "i">>, <<" ", "y", "o", " ">>} : ChatType(text)
  \/ sendMessage
  \/ \E ok \in BOOLEAN : ChatResponds(ok)
  \/ \E outcome \in {"ok", "not_ok", "bad_body", "throws"}, id \in {"", "s1", "s2"} :
       ChatReply(outcome, id)

(***************************************************************************)
(* UploadInterface                                                         *)
(***************************************************************************)
\* The calls of handleUpload of a behaviour, at most.
MaxUploads == 3

\* The files the user can choose.
UploadFiles == {"a.pdf", "b.txt"}

\* `Document "${key}" uploaded successfully`, the message of /api/upload
UploadedMessage(key) == "Document \"" \o key \o "\" uploaded successfully"

\* The message or error of a response body, or the message of a thrown
\* Error.  /api/upload answers 400 'Key and content are required' (an empty
\* file has no content), 500 'Bucket name not configured' and 500 'Failed
\* to upload document'.
UploadMessages ==
  {"", "Key and content are required", "Bucket name not configured",
   "Failed to upload document", "Failed to fetch"}
    \cup {UploadedMessage(f) : f \in UploadFiles}

InitUpload ==
  /\ uFile = ""
  /\ uLoading = FALSE
  /\ uError = ""
  /\ uSuccess = ""
  /\ uTab = "upload"
  /\ uUploads = <<>>
  /\ uCount = 0
  /\ uPuts = {}
  /\ uStored = {}

\* seq without its element i
RemoveAt(seq, i) == SubSeq(seq, 1, i - 1) \o SubSeq(seq, i + 1, Len(seq))

\* The tab buttons of SmartBucketDemo: setActiveTab(tab).  A change of tab
\* unmounts UploadInterface or mounts it anew with its initial state (no
\* state is kept for a component that is not mounted); the calls of
\* handleUpload of the instance that is gone go on, and their state updates
\* are dropped.
setActiveTab(tab) ==
  /\ uTab' = tab
  /\ IF tab = uTab
     THEN UNCHANGED <<uFile, uLoading, uError, uSuccess, uUploads>>
     ELSE /\ uFile' = ""
          /\ uLoading' = FALSE
          /\ uError' = ""
          /\ uSuccess' = ""
          /\ uUploads' = [k \in DOMAIN uUploads |-> [uUploads[k] EXCEPT !.mounted = FALSE]]
  /\ UNCHANGED <<uCount, uPuts, uStored, postVars, exVars, qVars, hVars, aVars, cVars>>

\* handleFileChange: the file input changes to the file name ("" when no
\* file is chosen); the input is disabled while loading (line 109).
handleFileChange(name) ==
  /\ uTab = "upload"
  /\ ~uLoading
  /\ IF name # ""
     THEN uFile' = name /\ uError' = "" /\ uSuccess' = ""
     ELSE UNCHANGED <<uFile, uError, uSuccess>>
  /\ UNCHANGED <<uLoading, uTab, uUploads, uCount, uPuts, uStored, postVars, exVars, qVars, hVars, aVars, cVars>>

\* The Remove button, lines 132-138, shown while a file is selected.
RemoveFile ==
  /\ uTab = "upload"
  /\ uFile # ""
  /\ uFile' = ""
  /\ UNCHANGED <<uLoading, uError, uSuccess, uTab, uUploads, uCount, uPuts, uStored, postVars, exVars, qVars, hVars, aVars, cVars>>

\* The message shown for what handleUpload catches: an Error with a
\* message, or anything else.
CaughtMessage(isError, message) == IF isError THEN message ELSE "An error occurred"

\* handleUpload, lines 22-28, up to its first await: a submit of the form,
\* which the disabled submit button (line 146) prevents while loading or
\* without a file.
handleUpload ==
  /\ uTab = "upload"
  /\ ~(uLoading \/ uFile = "")
  /\ uCount < MaxUploads
  /\ IF uFile = ""
     THEN UNCHANGED <<uLoading, uError, uSuccess, uUploads, uCount>>
     ELSE /\ uLoading' = TRUE
          /\ uError' = ""
          /\ uSuccess' = ""
          /\ uCount' = uCount + 1
          /\ uUploads' = Append(uUploads, [id |-> uCount + 1, stage |-> "reading", file |-> uFile,
                                           mounted |-> TRUE, response |-> "none"])
  /\ UNCHANGED <<uFile, uTab, uPuts, uStored, postVars, exVars, qVars, hVars, aVars, cVars>>

\* handleUpload, lines 30-54, for its call i: the FileReader has read the
\* file and the request is sent to /api/upload, or it rejects with its error
\* event, which is no Error (lines 67-70; the state updates of an instance
\* that is not mounted any more are dropped).
handleUploadRead(i, ok) ==
  /\ i \in DOMAIN uUploads
  /\ uUploads[i].stage = "reading"
  /\ IF ok
     THEN /\ uUploads' = [uUploads EXCEPT ![i].stage = "posting"]
          /\ uPuts' = uPuts \cup {[id |-> uUploads[i].id, key |-> uUploads[i].file]}
          /\ UNCHANGED <<uError, uLoading>>
     ELSE /\ uUploads' = RemoveAt(uUploads, i)
          /\ IF uUploads[i].mounted
             THEN uError' = CaughtMessage(FALSE, "") /\ uLoading' = FALSE
             ELSE UNCHANGED <<uError, uLoading>>
          /\ UNCHANGED uPuts
  /\ UNCHANGED <<uFile, uSuccess, uTab, uCount, uStored, postVars, exVars, qVars, hVars, aVars, cVars>>

\* POST of /api/upload answers the request put: its client.bucket.put
\* resolves, the key is stored and the 200 response is returned; or it
\* answers with an error status (lines 10-26, 45-54) and nothing is stored.
\* The response is on its way to the call of handleUpload that sent the
\* request, when that call still awaits it.
UploadRoute(put, putOk) ==
  /\ put \in uPuts
  /\ uPuts' = uPuts \ {put}
  /\ uStored' = IF putOk THEN uStored \cup {put.key} ELSE uStored
  /\ uUploads' = [k \in DOMAIN uUploads |->
                    IF uUploads[k].id = put.id /\ uUploads[k].stage = "posting"
                    THEN [uUploads[k] EXCEPT !.response = IF putOk THEN "ok" ELSE "not_ok"]
                    ELSE uUploads[k]]
  /\ UNCHANGED <<uFile, uLoading, uError, uSuccess, uTab, uCount, postVars, exVars, qVars, hVars, aVars, cVars>>

\* handleUpload, lines 44-56, for its call i: the await of fetch resolves
\* with the response of /api/upload, ok or not, whose body is read next.
handleUploadResponds(i) ==
  /\ i \in DOMAIN uUploads
  /\ uUploads[i].stage = "posting"
  /\ uUploads[i].response # "none"
  /\ uUploads' = [uUploads EXCEPT ![i].stage = IF uUploads[i].response = "ok"
                                                THEN "receiving" ELSE "receiving_error"]
  /\ UNCHANGED <<uFile, uLoading, uError, uSuccess, uTab, uCount, uPuts, uStored, postVars, exVars, qVars, hVars, aVars, cVars>>

\* The stage handleUpload is at before it ends with outcome.
EndsAt(outcome, stage) ==
  CASE outcome = "ok" -> "receiving"
    [] outcome = "not_ok" -> "receiving_error"
    [] outcome = "bad_body" -> IF stage = "receiving_error" THEN stage ELSE "receiving"
    [] OTHER -> "posting"

\* handleUploadEnds with loading left as it is when the upload fails.
handleUploadEndsKeepLoading(i, outcome, message) ==
  /\ i \in DOMAIN uUploads
  /\ uUploads[i].stage = EndsAt(outcome, uUploads[i].stage)
  /\ outcome = "ok" => message = UploadedMessage(uUploads[i].file)
  /\ uUploads' = RemoveAt(uUploads, i)
  /\ IF ~uUploads[i].mounted
     THEN UNCHANGED <<uSuccess, uFile, uError, uLoading>>
     ELSE IF outcome = "ok"
     THEN uSuccess' = message /\ uFile' = "" /\ uLoading' = FALSE /\ UNCHANGED uError
     ELSE /\ uError' = IF outcome = "not_ok"
                       THEN CaughtMessage(TRUE, IF message # "" THEN message ELSE "Upload failed")
                       ELSE CaughtMessage(TRUE, message)
          /\ UNCHANGED <<uSuccess, uFile, uLoading>>
  /\ UNCHANGED <<uTab, uCount, uPuts, uStored, postVars, exVars, qVars, hVars, aVars, cVars>>

\* handleUpload, lines 56-71, for its call i, at its end.  outcome: the
\* body of an ok response is read and holds the message of /api/upload; the
\* body of a response that is not ok is read and holds the error message
\* ("" for none); the reading of a body, or the fetch, throws an Error with
\* the message.  The state updates of an instance that is not mounted any
\* more are dropped.
handleUploadEnds(i, outcome, message) ==
  /\ i \in DOMAIN uUploads
  /\ uUploads[i].stage = EndsAt(outcome, uUploads[i].stage)
  /\ outcome = "ok" => message = UploadedMessage(uUploads[i].file)
  /\ uUploads' = RemoveAt(uUploads, i)
  /\ IF ~uUploads[i].mounted
     THEN UNCHANGED <<uSuccess, uFile, uError, uLoading>>
     ELSE /\ IF outcome = "ok"
             THEN uSuccess' = message /\ uFile' = "" /\ UNCHANGED uError
             ELSE /\ uError' = IF outcome = "not_ok"
                               THEN CaughtMessage(TRUE, IF message # "" THEN message ELSE "Upload failed")
                               ELSE CaughtMessage(TRUE, message)
                  /\ UNCHANGED <<uSuccess, uFile>>
          /\ uLoading' = FALSE
  /\ UNCHANGED <<uTab, uCount, uPuts, uStored, postVars, exVars, qVars, hVars, aVars, cVars>>

NextUpload ==
  \/ \E tab \in {"upload", "search"} : setActiveTab(tab)
  \/ \E name \in {""} \cup UploadFiles : handleFileChange(name)
  \/ RemoveFile
  \/ handleUpload
  \/ \E i \in 1..MaxUploads, ok \in BOOLEAN : handleUploadRead(i, ok)
  \/ \E put \in uPuts, putOk \in BOOLEAN : UploadRoute(put, putOk)
  \/ \E i \in 1..MaxUploads : handleUploadResponds(i)
  \/ \E i \in 1..MaxUploads, outcome \in {"ok", "not_ok", "bad_body", "throws"},
        message \in UploadMessages :
          handleUploadEnds(i, outcome, message)

Init == InitPost /\ InitExtract /\ InitQuery /\ InitHistory /\ InitAgent /\ InitChat /\ InitUpload

\* extractPrice reads nothing of the handler.
InitOfExtract ==
  Init /\ apiKey /\ xUserId = "" /\ random = [k \in 1..RandomCalls |-> 0]

\* The check-prices handler serving one request.
Spec == Init /\ [][Next]_vars

\* extractPrice applied to the texts built from Chunks.
SpecExtract == InitOfExtract /\ [][NextExtract]_vars

SpecQuery == InitOfExtract /\ [][NextQuery]_vars

\* UploadInterface from its mount on.
SpecUpload == InitOfExtract /\ [][NextUpload]_vars

\* AgentChat from its mount on.
SpecChat == InitOfExtract /\ [][NextChat]_vars

\* The agent handler serving one request.
SpecAgent == InitOfExtract /\ [][NextAgent]_vars

\* get-price-history called on the bucket that runs of check-prices fill.
SpecHistory == InitOfExtract /\ [][NextHistory]_vars

(***************************************************************************)
(* Properties                                                              *)
(***************************************************************************)
\* checkAllPrices has returned a report.
Reported == pc = "aggregated" \/ (pc = "responded" /\ response.status = 200)

DayRange == (0 - 3 * MaxEndSteps - 2)..(3 * MaxEndSteps + 2)

\* ceil((endDate - startDate) / 1 day): the least d with end - start <= d days
CeilDays(td) ==
  CHOOSE d \in DayRange :
    /\ td.endDate - td.startDate <= d * MsPerDay
    /\ (d - 1) * MsPerDay < td.endDate - td.startDate

\* C1: in every report of checkAllPrices, totalCost is flight.price +
\* hotel.pricePerNight * days + car.pricePerDay * days, with the same
\* days = ceil((endDate - startDate) / 1 day) for the hotel and the car.
C1_TotalCost ==
  Reported =>
    priceCheck.totalCost =
      priceCheck.flight.price
        + priceCheck.hotel.price * CeilDays(tripDetails)
        + priceCheck.car.price * CeilDays(tripDetails)

\* A report for a trip of two and a half days, counted as three.
C1_Witness ==
  /\ Reported
  /\ tripDetails.endDate - tripDetails.startDate = 5 * HalfDay
  /\ priceCheck.hotel.price > 0
  /\ priceCheck.car.price > 0
  /\ priceCheck.totalCost =
       priceCheck.flight.price + 3 * priceCheck.hotel.price + 3 * priceCheck.car.price

\* C2: in every report each withinBudget flag is price <= budget of its
\* category and withinTotalBudget is totalCost <= totalBudget, whatever
\* flag the lookup returned.
C2_BudgetFlags ==
  Reported =>
    /\ priceCheck.flight.withinBudget = (priceCheck.flight.price <= tripDetails.flightBudget)
    /\ priceCheck.hotel.withinBudget = (priceCheck.hotel.price <= tripDetails.hotelBudgetPerNight)
    /\ priceCheck.car.withinBudget = (priceCheck.car.price <= tripDetails.carBudgetPerDay)
    /\ priceCheck.withinTotalBudget = (priceCheck.totalCost <= tripDetails.totalBudget)

\* A report whose flight price equals the flight budget (flag true, though
\* the lookup returned false) and whose hotel is over budget.
C2_Witness ==
  /\ Reported
  /\ priceCheck.flight.price = tripDetails.flightBudget
  /\ priceCheck.flight.withinBudget
  /\ ~leg["flight"].quote.withinBudget
  /\ ~priceCheck.hotel.withinBudget
  /\ priceCheck.hotel.price > tripDetails.hotelBudgetPerNight

(***************************************************************************)
(* The amounts written in a text, read without extractPrice: a numeral is  *)
(* all the digits that stand together, with its thousands groups and its   *)
(* cents, and it is an amount when "$" precedes it, a unit follows it, or  *)
(* "price" or "from" (and the like) introduces it.                         *)
(***************************************************************************)
RECURSIVE DigitRun(_, _)
DigitRun(text, i) ==
  IF i <= Len(text) /\ IsDigit(text[i]) THEN 1 + DigitRun(text, i + 1) ELSE 0

WrittenEnd(text, i) ==
  LET p == i + DigitRun(text, i)
      q == IF DigitRun(text, i) <= 3 THEN p + 4 * GreedyGroups(text, p) ELSE p
  IN  IF CentsAt(text, q) THEN q + 3 ELSE q

\* A numeral starts at i: a digit that continues no numeral.
StartsNumeral(text, i) ==
  /\ IsDigit(text[i])
  /\ i > 1 => ~IsDigit(text[i - 1])
  /\ i > 2 => ~(text[i - 1] \in {",", "."} /\ IsDigit(text[i - 2]))

\* The numeral at i follows an introducing word and its separators.
Introduced(text, i) ==
  \E j \in 1..(i - 1) :
    \E w \in { <<"p","r","i","c","e">>, <<"f","r","o","m">>,
               <<"s","t","a","r","t","i","n","g"," ","a","t">>,
               <<"a","s"," ","l","o","w"," ","a","s">> } :
      /\ LitAt(text, j, w)
      /\ RunOf(text, j + Len(w), TRUE) >= 1
      /\ j + Len(w) + RunOf(text, j + Len(w), TRUE) = i

\* The positions of the amounts of at most seven digits (a longer one is
\* in no band).
AmountStarts(text) ==
  { i \in 1..Len(text) :
      /\ StartsNumeral(text, i)
      /\ DigitRun(text, i) <= 7
      /\ \/ (i > 1 /\ text[i - 1] = "$")
         \/ UnitEnd(text, WrittenEnd(text, i)) # 0
         \/ Introduced(text, i) }

\* The amounts of the text within [0.3 * lo, 3 * hi], in whole units.
InBandWritten(text, lo, hi) ==
  { RoundCents(ParseCents(text, i, WrittenEnd(text, i), 0)) :
      i \in { k \in AmountStarts(text) :
                LET c == ParseCents(text, k, WrittenEnd(text, k), 0)
                IN  c > 0 /\ c >= 30 * lo /\ c <= 300 * hi } }

\* C3: for a text with an amount within [0.3 * low, 3 * high], extractPrice
\* returns the least of the amounts of the text within the band, and no
\* value outside the band.
C3_MinimumInBandAmount ==
  LET lo == Bands[exBand].lo
      hi == Bands[exBand].hi
      amounts == InBandWritten(exText, lo, hi)
  IN  (exPc = -1 /\ amounts # {}) =>
        /\ exResult \in amounts
        /\ \A a \in amounts : exResult <= a
        /\ 10 * exResult >= 3 * lo
        /\ exResult <= 3 * hi

\* C4: when no match survives the band filter, extractPrice returns an
\* integer within [low, high]; an amount outside the band is not returned.
C4_FallbackWithinBounds ==
  (exPc = -1 /\ CollectPrices(exText, 1, Bands[exBand].lo, Bands[exBand].hi) = <<>>) =>
    /\ Bands[exBand].lo <= exResult
    /\ exResult <= Bands[exBand].hi

\* extractPrice has met an amount, which is outside the band, and returns
\* the upper bound.
C4_Witness ==
  /\ exPc = -1
  /\ MatchAll(1, exText, 1) # <<>>
  /\ CollectPrices(exText, 1, Bands[exBand].lo, Bands[exBand].hi) = <<>>
  /\ exResult = Bands[exBand].hi

\* The gateway call of lookup c has failed: it gave no value (no API key,
\* network error, status not 2xx, body that does not parse) or a body that
\* has not the shape of a search response.
GatewayFailed(c) ==
  /\ leg[c].st \in {"done", "threw"}
  /\ leg[c].sr.isNull \/ leg[c].sr.data.results = "other"

\* C5: a lookup whose gateway call fails (no API key, network error, status
\* not 2xx, malformed payload) returns a quote of provenance 'simulation',
\* and no error reaches checkAllPrices or POST: the response is 200.
C5_GatewayFailureFallsBack ==
  \A c \in Categories :
    GatewayFailed(c) =>
      /\ leg[c].st = "done"
      /\ leg[c].quote.source = "simulation"
      /\ pc = "responded" => response.status = 200

\* The price of the quote of lookup c was drawn by the fallback of
\* extractPrice: the text searched holds no amount within the band.
RandomPrice(c) ==
  /\ leg[c].st = "done"
  /\ UsesSearch(leg[c].sr)
  /\ CollectPrices(SearchText(leg[c].sr), 1, BandOf(c).lo, BandOf(c).hi) = <<>>

\* C6: a quote whose price was drawn by the fallback of extractPrice has
\* provenance 'simulation', not 'perplexity'.
C6_RandomPriceTaggedFallback ==
  \A c \in Categories : RandomPrice(c) => leg[c].quote.source = "simulation"

\* C7: a response with no answer and no result (results missing or an empty
\* list) is a failed lookup: the quote has provenance 'simulation'.
C7_NoAnswerNoResultsFallsBack ==
  \A c \in Categories :
    ( /\ leg[c].st \in {"done", "threw"}
      /\ ~leg[c].sr.isNull
      /\ leg[c].sr.data.answer = <<>>
      /\ \/ leg[c].sr.data.results = "missing"
         \/ (leg[c].sr.data.results = "array" /\ leg[c].sr.data.items = <<>>) )
    => (leg[c].st = "done" /\ leg[c].quote.source = "simulation")

\* The body parsed to an object that lacks one of the four details.
LacksDetail ==
  /\ tripDetails \in Bodies
  /\ \/ tripDetails.origin = ""
     \/ tripDetails.destination = ""
     \/ tripDetails.startDate = NoDate
     \/ tripDetails.endDate = NoDate

\* Nothing was searched, written or computed.
NothingDone ==
  /\ \A c \in Categories : leg[c] = IdleLeg
  /\ bucket = {}
  /\ raindrop = ""
  /\ priceSaved = ""
  /\ first = ""
  /\ priceCheck = NoReport

\* C8: a body that lacks origin, destination, startDate or endDate is
\* answered 400 with an error, and nothing is searched, written or computed.
C8_MissingDetailsRejected ==
  (pc # "idle" /\ LacksDetail) =>
    /\ pc = "responded"
    /\ response = Response(400, "Missing required trip details", NoReport, FALSE)
    /\ NothingDone

\* Only endDate is missing, and the request is answered 400.
C8_Witness ==
  /\ pc = "responded"
  /\ response.status = 400
  /\ tripDetails.origin # ""
  /\ tripDetails.destination # ""
  /\ tripDetails.startDate # NoDate
  /\ tripDetails.endDate = NoDate
  /\ NothingDone

\* C9: a request whose endDate is not after its startDate (days < 1) is
\* rejected before any lookup, and no report with days < 1 is produced.
C9_NonPositiveDurationRejected ==
  ( /\ tripDetails \in Bodies
    /\ tripDetails.startDate # NoDate
    /\ tripDetails.endDate # NoDate
    /\ tripDetails.endDate <= tripDetails.startDate )
  => ( /\ \A c \in Categories : leg[c] = IdleLeg
       /\ priceCheck = NoReport
       /\ response.status # 200 )

\* A SmartBucket write of this request has failed.
WriteFailed ==
  \/ raindrop \in {"trip_put_fails", "preferences_put_fails"}
  \/ priceSaved = "price_put_fails"

\* C10: when a SmartBucket write fails (trip config, preferences or price
\* snapshot), the response is 200 and carries the report of checkAllPrices
\* as it was computed from the three quotes.
C10_WriteFailureLeavesReport ==
  (pc = "responded" /\ WriteFailed) =>
    /\ response.status = 200
    /\ priceCheck # NoReport
    /\ response.priceCheck = priceCheck
    /\ priceCheck.flight.price = leg["flight"].quote.price
    /\ priceCheck.hotel.price = leg["hotel"].quote.price
    /\ priceCheck.car.price = leg["car"].quote.price

\* The request passed the validation of POST.
PassedValidation ==
  /\ tripDetails \in Bodies
  /\ tripDetails.origin # ""
  /\ tripDetails.destination # ""
  /\ tripDetails.startDate # NoDate
  /\ tripDetails.endDate # NoDate

\* C11: a request that passed validation is answered 200 with the three
\* quotes, totalCost and withinTotalBudget; a failing response goes only to
\* a request that failed validation.
C11_ValidRequestAnswered200 ==
  (pc = "responded" /\ PassedValidation) =>
    /\ response.status = 200
    /\ response.priceCheck = priceCheck
    /\ priceCheck # NoReport

\* C12: totalCost and the flags are computed only when the three lookups
\* have returned, each with a quote by search or by fallback; a report is
\* never there while a lookup is pending, and it leaves no category out.
C12_ReportAfterAllLookups ==
  (priceCheck # NoReport \/ response.status = 200) =>
    /\ \A c \in Categories :
         /\ leg[c].st = "done"
         /\ leg[c].quote.source \in {"perplexity", "simulation"}
    /\ priceCheck.flight.source = leg["flight"].quote.source
    /\ priceCheck.hotel.source = leg["hotel"].quote.source
    /\ priceCheck.car.source = leg["car"].quote.source

\* A report made of one quote by search and two by fallback.
C12_Witness ==
  /\ pc = "aggregated"
  /\ priceCheck.flight.source = "perplexity"
  /\ priceCheck.hotel.source = "simulation"
  /\ priceCheck.car.source = "simulation"
  /\ leg["hotel"].sr = Null
  /\ ~leg["car"].sr.isNull

\* C18: the gateway is called at most once per category in one price check:
\* once by every lookup when an API key is set (three calls in a check that
\* yields a report), never when none is set, and not again after a failed
\* or an empty search.
C18_OneGatewayCallPerCategory ==
  /\ \A c \in Categories :
       /\ leg[c].fetches <= 1
       /\ leg[c].st \in {"done", "threw"} => leg[c].fetches = (IF apiKey THEN 1 ELSE 0)
  /\ Reported =>
       leg["flight"].fetches + leg["hotel"].fetches + leg["car"].fetches
         = (IF apiKey THEN 3 ELSE 0)

\* A report after a failed flight search and an empty hotel search: each
\* was called once.
C18_Witness ==
  /\ Reported
  /\ apiKey
  /\ leg["flight"].sr = Null
  /\ leg["hotel"].sr = Data(PayloadEmpty)
  /\ leg["hotel"].quote.source = "simulation"
  /\ \A c \in Categories : leg[c].fetches = 1

\* The results of the gateway response that have a url, in gateway order.
WithUrl(sr) ==
  IF sr.data.results = "array"
  THEN SelectSeq(sr.data.items, LAMBDA item : item.url # "")
  ELSE <<>>

\* C13: a quote carries at most 3 booking URLs; those of a quote by search
\* are the url fields of the first three results that have one, in gateway
\* order; a quote by fallback carries exactly 3 URLs made from a template.
C13_BookingUrls ==
  \A c \in Categories :
    leg[c].st = "done" =>
      LET urls == leg[c].quote.bookingUrls
      IN  /\ Len(urls) <= 3
          /\ leg[c].quote.source = "perplexity" =>
               /\ Len(urls) = (IF Len(WithUrl(leg[c].sr)) < 3 THEN Len(WithUrl(leg[c].sr)) ELSE 3)
               /\ \A k \in 1..Len(urls) : urls[k] = GatewayUrl(WithUrl(leg[c].sr)[k].url)
          /\ leg[c].quote.source = "simulation" =>
               /\ Len(urls) = 3
               /\ \A k \in 1..3 : urls[k].to # ""

\* A flight quote from five results, four of them with a url (the second
\* has none): it carries the urls of the first, third and fourth; the car
\* quote is simulated and carries three URLs.
C13_Witness ==
  /\ leg["flight"].st = "done"
  /\ leg["flight"].sr = Data(PayloadSnippets)
  /\ Len(WithUrl(leg["flight"].sr)) = 4
  /\ leg["flight"].quote.bookingUrls = <<GatewayUrl("u1"), GatewayUrl("u2"), GatewayUrl("u3")>>
  /\ leg["car"].st = "done"
  /\ leg["car"].quote.source = "simulation"
  /\ Len(leg["car"].quote.bookingUrls) = 3

\* C14: the label of a quote is an entry of the list of its category.
C14_LabelInVocabulary ==
  \A c \in Categories :
    leg[c].st = "done" =>
      \/ \E k \in 1..Len(SearchList(c)) : leg[c].quote.label = SearchList(c)[k]
      \/ \E k \in 1..Len(FallbackList(c)) : leg[c].quote.label = FallbackList(c)[k]

\* The entries of the list of c that occur in the text, letter case ignored.
Occurring(c, text) ==
  { k \in 1..Len(SearchList(c)) : \E i \in 1..Len(text) : TermAt(text, i, SearchList(c)[k]) }

\* C15: when entries of the list occur in the text, the label is the first
\* listed of those that occur (in whatever letter case), wherever they stand.
C15_FirstListedEntry ==
  \A c \in Categories :
    (leg[c].st = "done" /\ leg[c].quote.source = "perplexity"
       /\ Occurring(c, SearchText(leg[c].sr)) # {}) =>
      LET k == CHOOSE m \in Occurring(c, SearchText(leg[c].sr)) :
                 \A n \in Occurring(c, SearchText(leg[c].sr)) : m <= n
      IN  ToLowerCase(leg[c].quote.label) = ToLowerCase(SearchList(c)[k])

\* C16: the price of a quote by search is not above any amount within the
\* band that stands in the result snippets, also when the response has an
\* answer.
C16_SnippetsScannedWithAnswer ==
  \A c \in Categories :
    (leg[c].st = "done" /\ leg[c].quote.source = "perplexity"
       /\ leg[c].sr.data.answer # <<>> /\ leg[c].sr.data.results = "array") =>
      LET amounts == CollectPrices(JoinSnippets(leg[c].sr.data.items), 1, BandOf(c).lo, BandOf(c).hi)
      IN  \A k \in 1..Len(amounts) : leg[c].quote.price <= amounts[k]

\* The quote in slot c of the report is that of lookup c.
SlotOf(c) ==
  CASE c = "flight" -> priceCheck.flight
    [] c = "hotel"  -> priceCheck.hotel
    [] OTHER        -> priceCheck.car

\* C19: whatever the order in which the lookups return, the flight, hotel
\* and car slots of the report hold the quotes of the flight, hotel and car
\* lookups, and no lookup reads state written by another lookup: the state
\* of Math.random a lookup finds is never the one another lookup left.
C19_SlotsHoldOwnLookup ==
  /\ Reported =>
       \A c \in Categories :
         [SlotOf(c) EXCEPT !.withinBudget = FALSE] = leg[c].quote
  /\ \A c, d \in Categories :
       (c # d /\ leg[c].drawn > 0 /\ leg[d].drawn > 0) => leg[c].read # leg[d].wrote

\* The amounts written in the text (of at most seven digits), whole, with
\* the separators removed and the cents rounded.
WrittenAmounts(text) ==
  { RoundCents(ParseCents(text, i, WrittenEnd(text, i), 0)) : i \in AmountStarts(text) }

\* C17: every amount extractPrice collects is an amount of the text as it
\* is written, whole: separators removed, cents rounded, digits not split.
C17_AmountsCollectedWhole ==
  exPc = -1 =>
    LET prices == CollectPrices(exText, 1, Bands[exBand].lo, Bands[exBand].hi)
    IN  \A k \in 1..Len(prices) : prices[k] \in WrittenAmounts(exText)

\* A class or text field carries a preference when it is set and not 'any'.
Chosen(v) == v # "" /\ v # "any"

\* The fixed piece of the clause of each field, in the field order of the
\* builder.
ClauseMarks(kind) ==
  CASE kind = "flight" -> <<" flights only", "Prefer airlines: ", "with extra legroom seats",
                            " departure time", " checked bag(s)">>
    [] kind = "hotel" -> <<"-star rating or better", " room", "with ", " cancellation policy">>
    [] OTHER -> <<" vehicle", " transmission", " mileage", "with ">>

\* Which fields of the set carry a preference, in the same order.
FieldPresent(kind, prefs) ==
  CASE kind = "flight" -> <<Chosen(prefs.stops), prefs.preferredAirlines # <<>>,
                            prefs.extraLegroom, Chosen(prefs.timeOfDay), prefs.baggageCount > 0>>
    [] kind = "hotel" -> <<prefs.starRating > 0, Chosen(prefs.roomType), prefs.amenities # <<>>,
                           Chosen(prefs.cancellationPolicy)>>
    [] OTHER -> <<Chosen(prefs.vehicleType), Chosen(prefs.transmission), prefs.mileage # "",
                  prefs.features # <<>>>>

PiecesAt(result, piece) == {i \in DOMAIN result : result[i] = piece}

\* C20: each of the three preference builders returns the empty string when
\* the preference set is absent or none of its fields carries a preference
\* (unset, or 'any' for a class field); otherwise it returns one
\* "Preferences:" suffix, closed by a full stop, holding the clause of every
\* field that carries a preference exactly once and of no other field, in the
\* field order of the builder.
C20_PreferenceClauses ==
  qKind # "" =>
    IF qPrefs.isAbsent THEN qResult = <<>>
    ELSE LET marks == ClauseMarks(qKind)
             present == FieldPresent(qKind, qPrefs)
         IN  /\ (qResult = <<>>) <=> (\A k \in DOMAIN present : ~present[k])
             /\ qResult # <<>> =>
                  /\ PiecesAt(qResult, "\nPreferences: ") = {1}
                  /\ PiecesAt(qResult, ".") = {Len(qResult)}
                  /\ \A k \in DOMAIN marks :
                       Cardinality(PiecesAt(qResult, marks[k])) = IF present[k] THEN 1 ELSE 0
                  /\ \A j, k \in DOMAIN marks :
                       (j < k /\ present[j] /\ present[k]) =>
                         \A a \in PiecesAt(qResult, marks[j]), b \in PiecesAt(qResult, marks[k]) : a < b

\* A flight set with four preferences and an 'any' time of day has been built.
C20_Witness ==
  /\ qKind = "flight"
  /\ ~qPrefs.isAbsent
  /\ Chosen(qPrefs.stops)
  /\ Len(qPrefs.preferredAirlines) = 2
  /\ qPrefs.extraLegroom
  /\ qPrefs.timeOfDay = "any"
  /\ qPrefs.baggageCount = 2
  /\ Len(qResult) > 2


\* The least and the greatest simulated price of a category.
SimulationRange(c) ==
  CASE c = "flight" -> [least |-> 300, greatest |-> 1000]
    [] c = "hotel"  -> [least |-> 40, greatest |-> 320]
    [] OTHER        -> [least |-> 10, greatest |-> 120]

Simulated(c) == leg[c].st = "done" /\ leg[c].quote.source = "simulation"

\* C21: a lookup that falls back to the simulation returns a positive whole
\* price within the range of its category (flight 300..1000, hotel 40..320 a
\* night, car 10..120 a day) and a label that is an entry of the category's
\* fallback vocabulary.
C21_SimulatedQuoteInRange ==
  \A c \in Categories :
    Simulated(c) =>
      /\ leg[c].quote.price \in Nat
      /\ leg[c].quote.price > 0
      /\ leg[c].quote.price >= SimulationRange(c).least
      /\ leg[c].quote.price <= SimulationRange(c).greatest
      /\ \E k \in DOMAIN FallbackList(c) : leg[c].quote.label = FallbackList(c)[k]

\* The flight lookup has simulated the least price of its range and the hotel
\* lookup the greatest of its own.
C21_Witness ==
  /\ Simulated("flight")
  /\ leg["flight"].quote.price = 300
  /\ Simulated("hotel")
  /\ leg["hotel"].quote.price = 320


\* The price snapshots check-prices stored for uid among the listed
\* objects.
SnapshotsOf(uid, listed) ==
  {k \in DOMAIN listed : listed[k].content.kind = "price" /\ listed[k].content.owner = uid}

Answered == hReq.st = "responded" /\ hResp.status = 200 /\ hResp.success

\* C22: the history returned for a user id holds only price snapshots that
\* check-prices stored for that user id, none stored for another one, also
\* when one id is the other followed by '-' and more.
C22_HistoryOfUserOnly ==
  Answered =>
    \A k \in DOMAIN hResp.history :
      hResp.history[k].kind = "price" /\ hResp.history[k].owner = hReq.userId

\* C23: for a positive limit (20 when none is given) the history has at most
\* limit entries, each one of the limit most recently modified snapshots of
\* the user among the objects listed, newest first, and count is the length
\* of the history.
C23_NewestWithinLimit ==
  (Answered /\ ParseLimit(hReq.limitParam) > 0) =>
    LET limit == ParseLimit(hReq.limitParam)
        own == SnapshotsOf(hReq.userId, hReq.priceObjects)
    IN  /\ Len(hResp.history) <= limit
        /\ hResp.count = Len(hResp.history)
        /\ \A j, k \in DOMAIN hResp.history :
             j < k => hResp.history[j].lastModified >= hResp.history[k].lastModified
        /\ \A k \in DOMAIN hResp.history :
             \E j \in own :
               /\ hResp.history[k].key = hReq.priceObjects[j].key
               /\ Cardinality({n \in own : hReq.priceObjects[n].lastModified
                                             > hReq.priceObjects[j].lastModified}) < limit

\* The snapshots of the request whose get resolved with a content that
\* decodes, in the order of sortedObjects.
Kept == SelectSeq(hReq.items, LAMBDA item : item.got /\ item.content.json)

\* C24: a request with a user id is never answered with an error status when
\* the storage fails: when the client cannot be created or the bucket cannot
\* be listed the answer is 200 with success false, count 0 and no history;
\* when the fetch or the decoding of snapshots fails, the history holds the
\* other snapshots selected, all of them and in their order.
C24_StorageFailuresAnswered200 ==
  (hReq.userId # <<>> /\ hReq.st = "responded") =>
    /\ hResp.status = 200
    /\ hReq.failed =>
         (~hResp.success /\ hResp.count = 0 /\ hResp.history = <<>>)
    /\ ~hReq.failed =>
         /\ hResp.success
         /\ Len(hResp.history) = Len(Kept)
         /\ \A k \in DOMAIN Kept : hResp.history[k].key = Kept[k].obj.key
         /\ hResp.count = Len(Kept)

\* Two snapshots were selected, the get of the newest has failed and the
\* other one is returned.
C24_Witness ==
  /\ hReq.st = "responded"
  /\ Len(hReq.items) = 2
  /\ ~hReq.items[1].got
  /\ hResp.status = 200
  /\ hResp.count = 1
  /\ hResp.history[1].key = hReq.items[2].obj.key



\* The calls of the log with the given operation that succeeded.
Made(op) == {k \in DOMAIN aLog : aLog[k].op = op /\ aLog[k].st = "ok"}

\* The session ids given to the memory read and the memory write.
MemoryIds == {aLog[k].sessionId : k \in {n \in DOMAIN aLog : aLog[n].op \in {"retrieve", "put"}}}

\* C25: a request that carries a sessionId creates no session, and its
\* memory read, memory write and response carry the supplied id; a request
\* that carries none and gets as far as the memory read has created exactly
\* one session, whose id the memory read, the memory write and the response
\* carry.
C25_SessionCreatedWhenNoneSupplied ==
  /\ aReq.sessionId # "" =>
       /\ \A k \in DOMAIN aLog : aLog[k].op # "create"
       /\ MemoryIds \subseteq {aReq.sessionId}
       /\ aResp.status = 200 => aResp.sessionId = aReq.sessionId
  /\ (aReq.sessionId = "" /\ (MemoryIds # {} \/ aResp.status = 200)) =>
       /\ Cardinality({k \in DOMAIN aLog : aLog[k].op = "create"}) = 1
       /\ \E k \in Made("create") :
            /\ MemoryIds \subseteq {aLog[k].sessionId}
            /\ aResp.status = 200 => aResp.sessionId = aLog[k].sessionId

\* A request without a sessionId has been answered with the id of the
\* session it created, after the memory was read and written with it.
C25_Witness ==
  /\ aReq.sessionId = ""
  /\ aResp.status = 200
  /\ aResp.sessionId = "n1"
  /\ MemoryIds = {"n1"}
  /\ Made("put") # {}

\* C26: the model is called only after the memory was retrieved, the
\* interaction is stored only after the model call has returned; when the
\* memory retrieval or the model call fails nothing is stored and the
\* response is 500.
C26_RetrieveModelStore ==
  /\ \A k \in DOMAIN aLog :
       /\ aLog[k].op = "model" => \E j \in Made("retrieve") : j < k
       /\ aLog[k].op = "put" => \E j \in Made("model") : j < k
  /\ (\E k \in DOMAIN aLog : aLog[k].op \in {"retrieve", "model"} /\ aLog[k].st = "failed") =>
       /\ \A k \in DOMAIN aLog : aLog[k].op # "put"
       /\ aPc = "done"
       /\ aResp.status = 500

\* The model call has failed after the memory was retrieved.
C26_Witness ==
  /\ Made("retrieve") # {}
  /\ \E k \in DOMAIN aLog : aLog[k].op = "model" /\ aLog[k].st = "failed"
  /\ aResp.status = 500


BothConfigWritten == {"trip", "preferences"} \subseteq bucket

\* C27: the price snapshot write is attempted only after checkAllPrices has
\* returned its report and only when the trip configuration and the
\* preferences were both written before; raindropEnabled of the response is
\* true exactly when those two were written, whatever the price snapshot
\* write did.
C27_SnapshotAfterConfigWrites ==
  /\ priceSaved # "" => (priceCheck # NoReport /\ BothConfigWritten)
  /\ (pc = "responded" /\ response.status = 200) =>
       /\ response.raindropEnabled <=> BothConfigWritten
       /\ priceSaved # "" <=> BothConfigWritten

\* The price snapshot write has failed after both earlier writes, and the
\* response says raindropEnabled.
C27_Witness ==
  /\ pc = "responded"
  /\ priceSaved = "price_put_fails"
  /\ BothConfigWritten
  /\ response.raindropEnabled

\* C28: the userId of the response body and of its x-user-id header is the
\* x-user-id header of the request when that is non-empty and a generated
\* id otherwise, and the session id and every key written carry that same
\* userId.
C28_OneUserIdThroughout ==
  /\ \A k \in keyUserId : k[2] = userId
  /\ (pc = "responded" /\ response.status = 200) =>
       /\ respUserId.body = userId
       /\ respUserId.header = userId
       /\ xUserId # "" => userId = xUserId
       /\ xUserId = "" => userId = "g1"

\* A request without the header has been answered with the generated id
\* after its three writes.
C28_Witness ==
  /\ pc = "responded"
  /\ xUserId = ""
  /\ respUserId.body = "g1"
  /\ {k[1] : k \in keyUserId} = {"session", "trip", "preferences", "price"}


\* C29: AgentChat sends a request to /api/agent only with a session id, a
\* non-blank input and no send in progress: at most one request is in
\* flight, none is ever sent when the session creation on mount failed, and
\* the messages are one user message per send, each completed send followed
\* by exactly one assistant message.
C29_OneSendAtATime ==
  /\ cInFlight <= 1
  /\ cInFlight = 1 => cLoading
  /\ cMount = "failed" => cSent = 0
  /\ cSent > 0 => cMount = "ok"
  /\ Len(cMessages) = 2 * cSent - cInFlight
  /\ \A k \in DOMAIN cMessages :
       /\ cMessages[k].role = (IF k % 2 = 1 THEN "user" ELSE "assistant")
       /\ cMessages[k].role = "user" => (cMessages[k].content # <<>> /\ ~IsSpace(cMessages[k].content[1]))

\* A second send has been answered with the error notice after a first one
\* was answered with the reply.
C29_Witness ==
  /\ cSent = 2
  /\ cInFlight = 0
  /\ Len(cMessages) = 4
  /\ cMessages[2].content = <<"reply">>
  /\ cMessages[4].content = <<"Sorry">>


\* C30: in UploadInterface the error and the success message are never both
\* set, and loading is false whenever no upload is in progress: none that
\* the mounted instance started, so none at all either.
C30_ErrorOrSuccessAndLoading ==
  /\ ~(uError # "" /\ uSuccess # "")
  /\ (\A k \in DOMAIN uUploads : ~uUploads[k].mounted) => ~uLoading

\* An upload has failed after the file was removed while it was in progress.
C30_Witness ==
  /\ uUploads = <<>>
  /\ uFile = ""
  /\ uError = "Failed to upload document"
  /\ uSuccess = ""
  /\ ~uLoading

====
